---- MODULE Spec2Model ----
(***************************************************************************)
(* Model of the LTC exchange aggregation service (src/main.py): the        *)
(* synthetic listing store, the market snapshot fetch and merge, the       *)
(* two-tier Redis cache with per-key expiry, the sort-and-rank step and    *)
(* the listing request handler.                                            *)
(*                                                                         *)
(* Strings that the code formats and parses again (prices, money amounts,  *)
(* percentages, exchange names) are sequences of one-character strings,    *)
(* so that formatting, parsing, lower-casing and lexicographic comparison  *)
(* are computed, not assumed.  Floats are exact fixed-point integers: a    *)
(* price is counted in units of 0.0001, a spread in units of 0.01.         *)
(***************************************************************************)
EXTENDS Integers, Sequences, FiniteSets, TLC

VARIABLES
  now,               \* wall-clock time in seconds (drives Redis expiry)
  custom_exchanges,  \* main.py:73, insertion-ordered dict: sequence of [key, value]
  cache,             \* the Redis keys of the listing endpoint: key -> entry or NoEntry
  last,              \* the last request served: its inputs, its response, what it called and wrote
  reqCount,          \* number of HTTP requests served so far (bounded)
  sorter,            \* SpecSort: a collection going through the sort-and-rank step
  workers,           \* SpecRace: listing requests in progress side by side, and the SETEX they issued
  bot,               \* bot.py: the conversations, exchange_data, and what the last update made the bot do
  history            \* the Redis keys of the price-history endpoint, and the requests it served

vars == <<now, custom_exchanges, cache, last, reqCount, sorter, workers, bot, history>>

-----------------------------------------------------------------------------
(* Bounds of the model *)

MaxRequests == 2
MaxTicks == 3
MaxStore == 2
MaxSortLen == 3
MaxStoreOps == 4

(* main.py:31 *)
CACHE_TTL == 180

\* the clock advances in steps of a third of the time to live
TickStep == CACHE_TTL \div 3

MaxTime == MaxTicks * TickStep

-----------------------------------------------------------------------------
(* Characters and strings *)

None == "None"

\* The characters in use, in code-point order (Python compares str by code point).
AsciiOrder ==
  <<"$", "%", ",", "-", ".",
    "0", "1", "2", "3", "4", "5", "6", "7", "8", "9",
    "A", "B", "C", "D", "E", "F", "G", "H", "I", "J", "K", "L", "M",
    "N", "O", "P", "Q", "R", "S", "T", "U", "V", "W", "X", "Y", "Z",
    "a", "b", "c", "d", "e", "f", "g", "h", "i", "j", "k", "l", "m",
    "n", "o", "p", "q", "r", "s", "t", "u", "v", "w", "x", "y", "z">>

Chars == {AsciiOrder[i] : i \in 1..Len(AsciiOrder)}

OrdTable == [c \in Chars |-> CHOOSE i \in 1..Len(AsciiOrder) : AsciiOrder[i] = c]

\* ord(c), up to the offset of the table
Ord(c) == OrdTable[c]

DigitChars == <<"0", "1", "2", "3", "4", "5", "6", "7", "8", "9">>

DigitVal(c) == Ord(c) - Ord("0")

IsUpper(c) == Ord(c) >= Ord("A") /\ Ord(c) <= Ord("Z")

LowerTable == [c \in Chars |-> IF IsUpper(c) THEN AsciiOrder[Ord(c) + 26] ELSE c]

\* str.lower() on one character
LowerChar(c) == LowerTable[c]

\* a variant of Lower: the case is kept
LowerKept(s) == s

\* str.lower()
Lower(s) == [i \in 1..Len(s) |-> LowerChar(s[i])]

\* s.replace(c, '')
RECURSIVE Remove(_, _)
Remove(s, c) ==
  IF s = <<>> THEN <<>>
  ELSE (IF Head(s) = c THEN <<>> ELSE <<Head(s)>>) \o Remove(Tail(s), c)

\* Python's str < str
RECURSIVE StrLess(_, _)
StrLess(a, b) ==
  IF b = <<>> THEN FALSE
  ELSE IF a = <<>> THEN TRUE
  ELSE IF Head(a) = Head(b) THEN StrLess(Tail(a), Tail(b))
  ELSE Ord(Head(a)) < Ord(Head(b))

Abs(n) == IF n < 0 THEN -n ELSE n

Pow10(k) == IF k = 0 THEN 1 ELSE IF k = 1 THEN 10 ELSE IF k = 2 THEN 100
            ELSE IF k = 3 THEN 1000 ELSE 10000

RECURSIVE Digits(_)
Digits(n) ==
  IF n < 10 THEN <<DigitChars[n + 1]>>
  ELSE Digits(n \div 10) \o <<DigitChars[(n % 10) + 1]>>

\* the "," option of the format mini-language: groups of three from the right
RECURSIVE GroupDigits(_)
GroupDigits(ds) ==
  IF Len(ds) <= 3 THEN ds
  ELSE GroupDigits(SubSeq(ds, 1, Len(ds) - 3)) \o <<",">> \o SubSeq(ds, Len(ds) - 2, Len(ds))

Sign(n) == IF n < 0 THEN <<"-">> ELSE <<>>

\* f"${math.floor(v):,}" for an integer amount n = floor(v)
FormatMoney(n) == <<"$">> \o Sign(n) \o GroupDigits(Digits(Abs(n)))

RECURSIVE ZeroPad(_, _)
ZeroPad(ds, k) == IF Len(ds) >= k THEN ds ELSE ZeroPad(<<"0">> \o ds, k)

\* f"{x:.kf}" for x = m / 10^k
FormatFixed(m, k) ==
  Sign(m) \o Digits(Abs(m) \div Pow10(k)) \o <<".">> \o ZeroPad(Digits(Abs(m) % Pow10(k)), k)

\* f"{x:.4f}", x counted in units of 0.0001
FormatPrice(m) == FormatFixed(m, 4)

\* f"{x:.2f}%", x counted in units of 0.01
FormatPercent(m) == FormatFixed(m, 2) \o <<"%">>

RECURSIVE DigitsValue(_)
DigitsValue(ds) ==
  IF ds = <<>> THEN 0
  ELSE 10 * DigitsValue(SubSeq(ds, 1, Len(ds) - 1)) + DigitVal(ds[Len(ds)])

\* float(s) for a decimal literal with at most k fractional digits, in units of 10^-k
ParseFloat(s, k) ==
  LET neg == s # <<>> /\ Head(s) = "-"
      body == IF neg THEN Tail(s) ELSE s
      dots == {i \in 1..Len(body) : body[i] = "."}
      dot == IF dots = {} THEN Len(body) + 1 ELSE CHOOSE i \in dots : TRUE
      whole == SubSeq(body, 1, dot - 1)
      frac == SubSeq(body, dot + 1, Len(body))
      mag == DigitsValue(whole) * Pow10(k) + DigitsValue(frac) * Pow10(k - Len(frac))
  IN IF neg THEN -mag ELSE mag

-----------------------------------------------------------------------------
(* Rows: ExchangeData, main.py:44-56 *)

\* SortCriterion, main.py:34-41
SortCriteria ==
  {"id", "price", "volume", "plus_depth", "minus_depth", "exchange", "volume_percentage"}

ExchangeData(id, exchange, pair, price, price_percent, plus, minus, volume, volpct, icon, url) ==
  [id |-> id, exchange |-> exchange, pair |-> pair, price |-> price,
   price_percent |-> price_percent, plusTwoPercentDepth |-> plus,
   minusTwoPercentDepth |-> minus, volume24h |-> volume, volumePercentage |-> volpct,
   lastUpdated |-> "Recently", icon |-> icon, url |-> url]

-----------------------------------------------------------------------------
(* Sort and rank: get_ltc_exchanges, main.py:280-313 *)

\* the key lambdas of main.py:285-303; numeric keys are fixed-point integers
NumKey(sort_by, x) ==
  CASE sort_by = "id" -> x.id
    [] sort_by = "price" -> ParseFloat(Remove(x.price, ","), 4)
    [] sort_by = "volume" -> ParseFloat(Remove(Remove(x.volume24h, "$"), ","), 0)
    [] sort_by = "plus_depth" -> ParseFloat(Remove(Remove(x.plusTwoPercentDepth, "$"), ","), 0)
    [] sort_by = "minus_depth" -> ParseFloat(Remove(Remove(x.minusTwoPercentDepth, "$"), ","), 0)
    [] sort_by = "volume_percentage" -> ParseFloat(Remove(x.volumePercentage, "%"), 2)

\* key(a) < key(b) for the criterion's key (main.py:300 for "exchange")
KeyLess(sort_by, a, b) ==
  IF sort_by = "exchange" THEN StrLess(Lower(a.exchange), Lower(b.exchange))
  ELSE NumKey(sort_by, a) < NumKey(sort_by, b)

KeyEqual(sort_by, a, b) == ~KeyLess(sort_by, a, b) /\ ~KeyLess(sort_by, b, a)

Reverse(s) == [i \in 1..Len(s) |-> s[Len(s) + 1 - i]]

\* a variant of InsertStable: x goes before the elements of equal key
RECURSIVE InsertBeforeEqual(_, _, _)
InsertBeforeEqual(s, x, sort_by) ==
  IF s = <<>> THEN <<x>>
  ELSE IF ~KeyLess(sort_by, Head(s), x) THEN <<x>> \o s
  ELSE <<Head(s)>> \o InsertBeforeEqual(Tail(s), x, sort_by)

\* a variant of InsertStable: x is dropped when an element of equal key is there
RECURSIVE InsertUnlessEqual(_, _, _)
InsertUnlessEqual(s, x, sort_by) ==
  IF s = <<>> THEN <<x>>
  ELSE IF KeyLess(sort_by, x, Head(s)) THEN <<x>> \o s
  ELSE IF ~KeyLess(sort_by, Head(s), x) THEN s
  ELSE <<Head(s)>> \o InsertUnlessEqual(Tail(s), x, sort_by)

\* x goes after every element whose key is not greater: equal keys keep their order
RECURSIVE InsertStable(_, _, _)
InsertStable(s, x, sort_by) ==
  IF s = <<>> THEN <<x>>
  ELSE IF KeyLess(sort_by, x, Head(s)) THEN <<x>> \o s
  ELSE <<Head(s)>> \o InsertStable(Tail(s), x, sort_by)

RECURSIVE StableSort(_, _)
StableSort(s, sort_by) ==
  IF s = <<>> THEN <<>>
  ELSE InsertStable(StableSort(SubSeq(s, 1, Len(s) - 1), sort_by), s[Len(s)], sort_by)

\* a variant of ListSort: the reverse flag is dropped
ListSortAscending(s, sort_by, reverse) == StableSort(s, sort_by)

\* a variant of ListSort: sort ascending, then reverse the result
ListSortThenReverse(s, sort_by, reverse) ==
  IF reverse THEN Reverse(StableSort(s, sort_by)) ELSE StableSort(s, sort_by)

\* list.sort(key=..., reverse=...): CPython reverses, sorts stably, reverses back
ListSort(s, sort_by, reverse) ==
  IF reverse THEN Reverse(StableSort(Reverse(s), sort_by)) ELSE StableSort(s, sort_by)

\* a variant of SortExchanges: the default order follows the descending flag
SortExchangesDefaultByFlag(exchanges, sort_by, descending) ==
  IF sort_by # None THEN ListSort(exchanges, sort_by, descending)
  ELSE ListSort(exchanges, "volume", descending)

\* main.py:281-308: the requested criterion, or volume descending when none is given
SortExchanges(exchanges, sort_by, descending) ==
  IF sort_by # None THEN ListSort(exchanges, sort_by, descending)
  ELSE ListSort(exchanges, "volume", TRUE)

\* a variant of AssignIds: the ids are left as they were
AssignIdsKept(exchanges) == exchanges

\* main.py:310-312 (and 464-466): ids follow the positions
AssignIds(exchanges) == [i \in 1..Len(exchanges) |-> [exchanges[i] EXCEPT !.id = i]]

SortAndRank(exchanges, sort_by, descending) ==
  AssignIds(SortExchanges(exchanges, sort_by, descending))

-----------------------------------------------------------------------------
(* What the outside world can answer *)

Str_Binance == <<"B", "i", "n", "a", "n", "c", "e">>
Str_OKX == <<"O", "K", "X">>
Str_hitbtc == <<"h", "i", "t", "b", "t", "c">>
Str_Aex == <<"A", "e", "x">>
Str_Bex == <<"B", "e", "x">>
Str_MyEx == <<"M", "y", "E", "x">>
Str_myex == <<"m", "y", "e", "x">>
Str_MYEX == <<"M", "Y", "E", "X">>

\* One ticker of GET /coins/litecoin/tickers: usd is converted_volume.usd, last is
\* counted in units of 0.0001, spread (bid_ask_spread_percentage) in units of 0.01.
Ticker(target, usd, lastPrice, identifier, name, spread) ==
  [target |-> target, usd |-> usd, last |-> lastPrice, identifier |-> identifier,
   name |-> name, spread |-> spread]

TkBinance == Ticker("USDT", 500000, 851234, "binance", Str_Binance, 2)
TkOkx == Ticker("USDT", 2000000, 95000, "okx", Str_OKX, 5)
TkHitbtc == Ticker("USDT", 10000, 850100, "hitbtc", Str_hitbtc, 100)
TkAex == Ticker("USDT", 119, 850000, "aex", Str_Aex, 100)
TkBex == Ticker("USDT", 119, 850000, "bex", Str_Bex, 100)
TkBtcPair == Ticker("BTC", 700000, 12, "binance", Str_Binance, 3)

\* the ticker lists the market-data provider may answer with
TickerLists == { <<TkBinance, TkOkx, TkHitbtc>>, <<TkAex, TkBtcPair, TkBex>> }

\* outcome of requests.get(.../tickers): a 200 with a list, another status, or an
\* exception (transport failure, body that is not the expected JSON)
TickerOutcomes ==
  [kind : {"ok"}, status : {200}, tickers : TickerLists]
    \cup [kind : {"non200"}, status : {429}, tickers : {<<>>}]
    \cup [kind : {"raise"}, status : {0}, tickers : {<<>>}]

\* outcome of requests.get(.../exchanges)
MetaOutcomes == {"ok", "non200", "raise"}

\* the body of a 200 answer of /exchanges: id, image, url
ProviderExchanges ==
  << [id |-> "binance", image |-> "img/binance", url |-> "https://binance"],
     [id |-> "okx", image |-> "img/okx", url |-> "https://okx"],
     [id |-> "hitbtc", image |-> "img/hitbtc-provider", url |-> "https://hitbtc"] >>

\* hardcoded_icons, main.py:359-371 (the entry a modelled ticker uses)
HardcodedIcons == << [id |-> "hitbtc", image |-> "img/hitbtc-hardcoded"] >>

\* how the call of get_binance_ltc_price to the quote provider can end
\* (main.py:739-748): an answer 200 with a price (in units of 0.0001), an answer
\* that is not 200 (its body may still hold a number), a transport failure
\* (requests.get raises), or an answer 200 whose body is not the expected JSON
BinanceOutcomes ==
  { [kind |-> "ok", price |-> 851234],
    [kind |-> "non200", price |-> 777],
    [kind |-> "raise", price |-> 0],
    [kind |-> "malformed", price |-> 0] }

\* the quote provider answering, with a price or with an error status
BinanceAnswers == {o \in BinanceOutcomes : o.kind \in {"ok", "non200"}}

\* a variant of GetBinanceLtcPrice: the status of the answer is not tested
GetBinanceLtcPriceAnyStatus(o) == IF o.kind \in {"ok", "non200"} THEN o.price ELSE 0

\* get_binance_ltc_price, main.py:737-748: the price of an answer 200, and the
\* sentinel 0 otherwise; the except clause turns every exception into 0
GetBinanceLtcPrice(o) == IF o.kind = "ok" THEN o.price ELSE 0

\* what get_binance_ltc_price can return; 0 is the sentinel of a failed call
BinancePrices == {GetBinanceLtcPrice(o) : o \in BinanceOutcomes}

-----------------------------------------------------------------------------
(* Arithmetic on fixed-point values *)

\* a / b rounded to the nearest integer, ties to even (b > 0)
RoundDiv(a, b) ==
  LET q == a \div b
      r == a % b
  IN IF 2 * r > b THEN q + 1
     ELSE IF 2 * r < b THEN q
     ELSE IF q % 2 = 0 THEN q ELSE q + 1

\* binance_price * (1 + price_percent / 100), main.py:113, 187, 440: r in units of
\* 0.0001, p in percent, result in units of 10^-6
PercentPrice(r, p) == r * (100 + p)

\* f"{calculated_price:.4f}" of a value in units of 10^-6
FormatPrice6(v) == FormatPrice(RoundDiv(v, 100))

\* math.floor of an amount given in units of 0.01
Floor100(c) == c \div 100

\* a variant of PlusDepth: the estimate is rounded up
PlusDepthRoundedUp(usd) == (usd * 6 + 99) \div 100

\* math.floor(base_volume_usd * 0.06), main.py:396
PlusDepth(usd) == (usd * 6) \div 100

\* math.floor(base_volume_usd * 0.05), main.py:397
MinusDepth(usd) == (usd * 5) \div 100

-----------------------------------------------------------------------------
(* The synthetic listing store: custom_exchanges, main.py:73-160 *)

\* Optional[float]: None, or a value
NoValue == [has |-> FALSE, v |-> 0]

Some(x) == [has |-> TRUE, v |-> x]

\* CustomExchangeInput, main.py:75-84: amounts in units of 0.01,
\* price_percent in percent
CustomExchangeInput(exchange, price_percent, plus, minus, volume, volpct, icon, url) ==
  [exchange |-> exchange, pair |-> "LTC/USDT", price_percent |-> price_percent,
   plusTwoPercentDepth |-> plus, minusTwoPercentDepth |-> minus, volume24h |-> volume,
   volumePercentage |-> volpct, icon |-> icon, url |-> url]

\* the request bodies an operator may POST
PostBodies ==
  { CustomExchangeInput(Str_MyEx, NoValue, 30050, 20000, 10000, 150, None, None),
    CustomExchangeInput(Str_myex, Some(10), 3000000, 2500000, 50000000, 100, "img/my", None),
    CustomExchangeInput(Str_Binance, Some(-5), 700, 500, 10000, 2, None, "https://b") }

\* the names an operator may DELETE
DeleteNames == {Str_MyEx, Str_myex, Str_Binance, Str_OKX}

Keys(store) == {store[i].key : i \in 1..Len(store)}

IndexOfKey(store, k) == CHOOSE i \in 1..Len(store) : store[i].key = k

\* a variant of DictSet: the entry is added whether or not the key is there
DictSetAppend(store, k, v) == Append(store, [key |-> k, value |-> v])

\* custom_exchanges[k] = v on an insertion-ordered dict
DictSet(store, k, v) ==
  IF k \in Keys(store) THEN [store EXCEPT ![IndexOfKey(store, k)] = [key |-> k, value |-> v]]
  ELSE Append(store, [key |-> k, value |-> v])

\* del custom_exchanges[k]
DictDel(store, k) ==
  LET i == IndexOfKey(store, k)
  IN SubSeq(store, 1, i - 1) \o SubSeq(store, i + 1, Len(store))

\* a variant of NewCustomExchange: without a reference price the adjustment is
\* not stored
NewCustomExchangeDroppingPercent(body, r) ==
  LET computed == body.price_percent.has /\ r > 0
  IN ExchangeData(0, body.exchange, body.pair,
                  IF computed THEN FormatPrice6(PercentPrice(r, body.price_percent.v))
                  ELSE FormatPrice(0),
                  IF computed THEN body.price_percent ELSE NoValue,
                  FormatMoney(Floor100(body.plusTwoPercentDepth)),
                  FormatMoney(Floor100(body.minusTwoPercentDepth)),
                  FormatMoney(Floor100(body.volume24h)),
                  FormatPercent(body.volumePercentage),
                  body.icon, body.url)

\* main.py:108-128: the entry a POST stores, r being what get_binance_ltc_price
\* returns if it is called
NewCustomExchange(body, r) ==
  LET computed == body.price_percent.has /\ r > 0
      price == IF computed THEN PercentPrice(r, body.price_percent.v) ELSE 0
  IN ExchangeData(0, body.exchange, body.pair,
                  IF computed /\ price # 0 THEN FormatPrice6(price) ELSE FormatPrice(0),
                  body.price_percent,
                  FormatMoney(Floor100(body.plusTwoPercentDepth)),
                  FormatMoney(Floor100(body.minusTwoPercentDepth)),
                  FormatMoney(Floor100(body.volume24h)),
                  FormatPercent(body.volumePercentage),
                  body.icon, body.url)

\* further bodies an operator may POST: the adjustments 0, -100 and below -100,
\* and a second casing of a stored name
MorePostBodies ==
  { CustomExchangeInput(Str_MyEx, Some(0), 30050, 20000, 10000, 150, None, None),
    CustomExchangeInput(Str_MYEX, Some(-100), 100, 100, 100, 100, None, None),
    CustomExchangeInput(Str_Binance, Some(-150), 700, 500, 10000, 2, None, None) }

\* CustomExchangeUpdateInput, main.py:86-95: every field optional; price in units
\* of 0.0001, price_percent in percent, amounts in units of 0.01
CustomExchangeUpdateInput(pair, price, price_percent, plus, minus, volume, volpct, icon, url) ==
  [pair |-> pair, price |-> price, price_percent |-> price_percent,
   plusTwoPercentDepth |-> plus, minusTwoPercentDepth |-> minus, volume24h |-> volume,
   volumePercentage |-> volpct, icon |-> icon, url |-> url]

\* a body with no field given
NoPatch ==
  CustomExchangeUpdateInput(None, NoValue, NoValue, NoValue, NoValue, NoValue, NoValue,
                            None, None)

\* the request bodies an operator may PATCH: a price alone, an adjustment alone,
\* both together, and fields other than the price
PatchBodies ==
  { [NoPatch EXCEPT !.price = Some(900000)],
    [NoPatch EXCEPT !.price_percent = Some(20)],
    [NoPatch EXCEPT !.price = Some(123400), !.price_percent = Some(-100),
                    !.volumePercentage = Some(250)],
    [NoPatch EXCEPT !.pair = "LTC/USD", !.plusTwoPercentDepth = Some(123456),
                    !.minusTwoPercentDepth = Some(99), !.volume24h = Some(100000099),
                    !.icon = "img/new", !.url = "https://new"] }

\* the names an operator may PATCH
PatchNames == {Str_MyEx, Str_MYEX, Str_Binance, Str_OKX}

\* a variant of UpdatedExchange: an explicit price wins over an adjustment given
\* with it, and an adjustment given while the reference price is unavailable
\* resets the price
UpdatedExchangePriceFirst(exchange, body, r) ==
  LET priced ==
        IF body.price.has
        THEN [exchange EXCEPT !.price = FormatPrice(body.price.v),
                              !.price_percent = NoValue]
        ELSE IF body.price_percent.has
        THEN [exchange EXCEPT !.price_percent = body.price_percent,
                              !.price = IF r > 0
                                        THEN FormatPrice6(PercentPrice(r, body.price_percent.v))
                                        ELSE FormatPrice(0)]
        ELSE exchange
  IN [priced EXCEPT
        !.pair = IF body.pair # None THEN body.pair ELSE @,
        !.plusTwoPercentDepth = IF body.plusTwoPercentDepth.has
                                THEN FormatMoney(Floor100(body.plusTwoPercentDepth.v)) ELSE @,
        !.minusTwoPercentDepth = IF body.minusTwoPercentDepth.has
                                 THEN FormatMoney(Floor100(body.minusTwoPercentDepth.v)) ELSE @,
        !.volume24h = IF body.volume24h.has
                      THEN FormatMoney(Floor100(body.volume24h.v)) ELSE @,
        !.volumePercentage = IF body.volumePercentage.has
                             THEN FormatPercent(body.volumePercentage.v) ELSE @,
        !.icon = IF body.icon # None THEN body.icon ELSE @,
        !.url = IF body.url # None THEN body.url ELSE @,
        !.lastUpdated = "Recently"]

\* a variant of UpdatedExchange: an icon absent from the body unsets the icon
UpdatedExchangeReplacingIcon(exchange, body, r) ==
  [exchange EXCEPT !.pair = IF body.pair # None THEN body.pair ELSE @, !.icon = body.icon]

\* main.py:175-211: the stored entry after a PATCH, r being what
\* get_binance_ltc_price returns if it is called. An adjustment in the body is
\* looked at first, and the price given with it is then ignored; the price is
\* recomputed only when r > 0.
UpdatedExchange(exchange, body, r) ==
  LET priced ==
        IF body.price_percent.has
        THEN [exchange EXCEPT !.price_percent = body.price_percent,
                              !.price = IF r > 0
                                        THEN FormatPrice6(PercentPrice(r, body.price_percent.v))
                                        ELSE @]
        ELSE IF body.price.has
        THEN [exchange EXCEPT !.price = FormatPrice(body.price.v),
                              !.price_percent = NoValue]
        ELSE exchange
  IN [priced EXCEPT
        !.pair = IF body.pair # None THEN body.pair ELSE @,
        !.plusTwoPercentDepth = IF body.plusTwoPercentDepth.has
                                THEN FormatMoney(Floor100(body.plusTwoPercentDepth.v)) ELSE @,
        !.minusTwoPercentDepth = IF body.minusTwoPercentDepth.has
                                 THEN FormatMoney(Floor100(body.minusTwoPercentDepth.v)) ELSE @,
        !.volume24h = IF body.volume24h.has
                      THEN FormatMoney(Floor100(body.volume24h.v)) ELSE @,
        !.volumePercentage = IF body.volumePercentage.has
                             THEN FormatPercent(body.volumePercentage.v) ELSE @,
        !.icon = IF body.icon # None THEN body.icon ELSE @,
        !.url = IF body.url # None THEN body.url ELSE @,
        !.lastUpdated = "Recently"]

-----------------------------------------------------------------------------
(* The market snapshot and the merge: fetch_exchange_data_from_api, main.py:341-468 *)

HasId(dict, identifier) == \E i \in 1..Len(dict) : dict[i].id = identifier

EntryOf(dict, identifier) == dict[CHOOSE i \in 1..Len(dict) : dict[i].id = identifier]

\* exchange_icon_mapping.get(identifier), main.py:346-374 and 405: the provider's
\* images when the call answered 200, overlaid with the hardcoded ones
IconOf(identifier, meta) ==
  IF HasId(HardcodedIcons, identifier) THEN EntryOf(HardcodedIcons, identifier).image
  ELSE IF meta = "ok" /\ HasId(ProviderExchanges, identifier)
       THEN EntryOf(ProviderExchanges, identifier).image
  ELSE None

\* exchange_url_mapping.get(identifier), main.py:354, 406
UrlOf(identifier, meta) ==
  IF meta = "ok" /\ HasId(ProviderExchanges, identifier)
  THEN EntryOf(ProviderExchanges, identifier).url
  ELSE None

\* main.py:393-426: the row of one retained ticker
TickerRow(t, meta) ==
  ExchangeData(0, t.name, "LTC/USDT", FormatPrice(t.last), NoValue,
               FormatMoney(PlusDepth(t.usd)), FormatMoney(MinusDepth(t.usd)),
               FormatMoney(t.usd), FormatPercent(t.spread),
               IconOf(t.identifier, meta), UrlOf(t.identifier, meta))

\* main.py:389-428: one row per ticker quoted in USDT, in ticker order
RECURSIVE SnapshotRows(_, _)
SnapshotRows(tickers, meta) ==
  IF tickers = <<>> THEN <<>>
  ELSE (IF Head(tickers).target = "USDT" THEN <<TickerRow(Head(tickers), meta)>> ELSE <<>>)
       \o SnapshotRows(Tail(tickers), meta)

\* a variant of CustomRow: the price of a percent-driven entry is computed from
\* whatever the gateway returns, the sentinel included
CustomRowComputingFromSentinel(c, r) ==
  [c EXCEPT !.id = 0,
            !.price = IF c.price_percent.has
                      THEN FormatPrice6(PercentPrice(r, c.price_percent.v))
                      ELSE c.price]

\* main.py:436-462: the copy of one stored entry, its price recomputed from the
\* reference price r when it is percent-driven and r is not the sentinel
CustomRow(c, r) ==
  [c EXCEPT !.id = 0,
            !.price = IF c.price_percent.has /\ r > 0
                      THEN FormatPrice6(PercentPrice(r, c.price_percent.v))
                      ELSE c.price]

\* the positions of the store whose entries are percent-driven: one reference-price
\* call is made for each
PercentIndexes(store) == {i \in 1..Len(store) : store[i].value.price_percent.has}

\* a variant of MergedRows: a stored entry named like a row of the snapshot is
\* left out
MergedRowsDeduplicating(snapshot, store, prices) ==
  snapshot \o SelectSeq([i \in 1..Len(store) |->
                           CustomRow(store[i].value,
                                     IF i \in PercentIndexes(store) THEN prices[i] ELSE 0)],
                        LAMBDA c : \A i \in 1..Len(snapshot) : snapshot[i].exchange # c.exchange)

\* a variant of MergedRows: the stored entries are left out
MergedRowsSnapshotOnly(snapshot, store, prices) == snapshot

MergedRows(snapshot, store, prices) ==
  snapshot \o [i \in 1..Len(store) |->
                 CustomRow(store[i].value,
                           IF i \in PercentIndexes(store) THEN prices[i] ELSE 0)]

\* a variant of StoreAfterMerge: the rows appended to the collection are the
\* objects of the store, which then carry the ids and the prices of the merge
StoreAfterMergeShared(store, exchanges) ==
  [i \in 1..Len(store) |->
     [store[i] EXCEPT !.value = exchanges[Len(exchanges) - Len(store) + i]]]

\* main.py:435-462: the store after a merge. The loop reads the entries and
\* appends a new ExchangeData built from each; price_str and the ids assigned
\* later (main.py:464-466, 311-312) go to these copies.
StoreAfterMerge(store, exchanges) == store

\* SnapshotRows of every answer the provider may give, computed once
SnapshotTable ==
  [m \in {"ok", "non200"} |-> [l \in TickerLists |-> SnapshotRows(l, m)]]

\* a variant of FetchExchangeData: the status of the tickers answer is not tested
FetchIgnoringStatus(meta, tick, prices, store) ==
  IF meta = "raise"
  THEN [kind |-> "exception", status |-> 0, exchanges |-> <<>>, calls |-> {"exchanges"}]
  ELSE IF tick.kind = "raise"
  THEN [kind |-> "exception", status |-> 0, exchanges |-> <<>>,
        calls |-> {"exchanges", "tickers"}]
  ELSE [kind |-> "ok", status |-> 200,
        exchanges |-> AssignIds(MergedRows(SnapshotRows(tick.tickers, meta), store, prices)),
        calls |-> {"exchanges", "tickers"}
                    \cup (IF PercentIndexes(store) # {} THEN {"binance"} ELSE {})]

\* fetch_exchange_data_from_api: kind "ok" with the merged rows (ids 1..N), or
\* "http_error" (HTTPException with the provider's status, main.py:378-381), or
\* "exception"; calls lists the providers contacted
FetchExchangeData(meta, tick, prices, store) ==
  IF meta = "raise"
  THEN [kind |-> "exception", status |-> 0, exchanges |-> <<>>, calls |-> {"exchanges"}]
  ELSE IF tick.kind = "raise"
  THEN [kind |-> "exception", status |-> 0, exchanges |-> <<>>,
        calls |-> {"exchanges", "tickers"}]
  ELSE IF tick.kind = "non200"
  THEN [kind |-> "http_error", status |-> tick.status, exchanges |-> <<>>,
        calls |-> {"exchanges", "tickers"}]
  ELSE [kind |-> "ok", status |-> 200,
        exchanges |-> AssignIds(MergedRows(SnapshotTable[meta][tick.tickers], store, prices)),
        calls |-> {"exchanges", "tickers"}
                    \cup (IF PercentIndexes(store) # {} THEN {"binance"} ELSE {})]

-----------------------------------------------------------------------------
(* The cache: redis_client.get / setex, main.py:30-31, 234-239, 271, 330 *)

SortOptions == SortCriteria \cup {None}

\* f"ltc_exchanges_data:{sort_by}:{descending}", main.py:238
SortCacheKey(sort_by, descending) == <<sort_by, descending>>

SortCacheKeys == SortOptions \X BOOLEAN

\* the (sort_by, descending) pairs that clients request
RequestKeys == {<<None, TRUE>>, <<None, FALSE>>, <<"id", TRUE>>}

\* json.loads of nothing: the get returned None
NoPayload == [status |-> "none", data |-> <<>>]

\* {'status': 'success', 'data': [...]}, main.py:266-269, 322-325
Payload(exchanges) == [status |-> "success", data |-> exchanges]

\* a key that is not set; builtAt is the time the merged collection behind a
\* payload was fetched (not stored by the code: it dates the payload)
NoEntry == [payload |-> NoPayload, expiresAt |-> 0, builtAt |-> 0]

\* a variant of CacheGet: the expiry test is inverted
CacheGetInverted(entry, t) == IF t > entry.expiresAt THEN entry.payload ELSE NoPayload

\* redis GET at time t: the value while the key has not expired
CacheGet(entry, t) == IF t < entry.expiresAt THEN entry.payload ELSE NoPayload

\* redis SETEX key ttl value at time t
SetEx(payload, ttl, t, builtAt) ==
  [payload |-> payload, expiresAt |-> t + ttl, builtAt |-> builtAt]

\* Redis drops a key when its time to live is over
Expire(entry, t) == IF t < entry.expiresAt THEN entry ELSE NoEntry

-----------------------------------------------------------------------------
(* The listing request: get_ltc_exchanges, main.py:221-338 *)

\* what is recorded of the last request served. The code keeps none of it: the
\* record holds the request's inputs (sort_by, descending, how the Redis reads and
\* the provider calls ended, the body of a PATCH, the reference prices returned:
\* -1 where the gateway was not called, and how each call of the gateway ended;
\* the name of the stored entry a DELETE or
\* a PATCH found under its key), what the handler found (hadSorted, hadBase, the
\* collection in hand before the sort), and what it did (the response, the
\* providers called, the keys written).
NoLast ==
  [op |-> "none", sort_by |-> None, descending |-> TRUE, at |-> 0, redisGet |-> "ok",
   status |-> "none", code |-> 0, data |-> <<>>, source |-> "none", builtAt |-> 0,
   calls |-> {}, writes |-> {}, upstream |-> "none", hadSorted |-> FALSE,
   hadBase |-> FALSE, presort |-> <<>>, storeSize |-> 0, name |-> <<>>,
   metaIn |-> "none", tickIn |-> "none", baseSet |-> "none", sortSet |-> "none",
   body |-> NoPatch, refPrice |-> -1, pricesIn |-> <<>>, stored |-> <<>>,
   gateway |-> "none", gatewaysIn |-> <<>>, tickersIn |-> <<>>, tickStatus |-> 0]

\* the request's record before its outcome is known
Request(sort_by, descending, redisGet) ==
  [NoLast EXCEPT !.op = "listing", !.sort_by = sort_by, !.descending = descending,
                 !.at = now, !.redisGet = redisGet,
                 !.hadSorted = (now < cache.sorted[SortCacheKey(sort_by, descending)].expiresAt),
                 !.hadBase = (now < cache.base.expiresAt),
                 !.storeSize = Len(custom_exchanges)]

\* main.py:337-338: every exception becomes HTTPException(500)
ServiceError(req, calls, upstream) ==
  [req EXCEPT !.status = "error", !.code = 500, !.calls = calls, !.upstream = upstream]

\* main.py:242-244: the stored payload, as it is
SortedHit(req, entry) ==
  [req EXCEPT !.status = "success", !.code = 200, !.data = entry.payload.data,
              !.source = "sorted", !.builtAt = entry.builtAt]

\* a variant of Finish: after a failed write of the base key the sorted key is not
\* attempted
FinishStoppingAfterFailedWrite(req, exchanges, source, builtAt, calls, upstream, baseWritten, sortSetOk) ==
  LET key == SortCacheKey(req.sort_by, req.descending)
      ranked == SortAndRank(exchanges, req.sort_by, req.descending)
      attempted == req.baseSet # "fail"
  IN /\ last' = [req EXCEPT !.status = "success", !.code = 200, !.data = ranked,
                            !.source = source, !.builtAt = builtAt, !.calls = calls,
                            !.upstream = upstream, !.presort = exchanges,
                            !.sortSet = (IF ~attempted THEN "none"
                                         ELSE IF sortSetOk THEN "ok" ELSE "fail"),
                            !.writes = (IF baseWritten THEN {"base"} ELSE {})
                                         \cup (IF attempted /\ sortSetOk THEN {"sorted"}
                                               ELSE {})]
     /\ cache' =
          [base |-> IF baseWritten
                    THEN SetEx(Payload(exchanges), CACHE_TTL, now, builtAt)
                    ELSE cache.base,
           sorted |-> IF attempted /\ sortSetOk
                      THEN [cache.sorted EXCEPT
                              ![key] = SetEx(Payload(ranked), CACHE_TTL, now, builtAt)]
                      ELSE cache.sorted]

\* a variant of Finish: the base key is written again whenever the sorted key is
FinishRefreshingBase(req, exchanges, source, builtAt, calls, upstream, baseWritten, sortSetOk) ==
  LET key == SortCacheKey(req.sort_by, req.descending)
      ranked == SortAndRank(exchanges, req.sort_by, req.descending)
  IN /\ last' = [req EXCEPT !.status = "success", !.code = 200, !.data = ranked,
                            !.source = source, !.builtAt = builtAt, !.calls = calls,
                            !.upstream = upstream, !.presort = exchanges,
                            !.sortSet = (IF sortSetOk THEN "ok" ELSE "fail"),
                            !.writes = (IF baseWritten \/ sortSetOk THEN {"base"} ELSE {})
                                         \cup (IF sortSetOk THEN {"sorted"} ELSE {})]
     /\ cache' =
          [base |-> IF baseWritten \/ sortSetOk
                    THEN SetEx(Payload(exchanges), CACHE_TTL, now, builtAt)
                    ELSE cache.base,
           sorted |-> IF sortSetOk
                      THEN [cache.sorted EXCEPT
                              ![key] = SetEx(Payload(ranked), CACHE_TTL, now, builtAt)]
                      ELSE cache.sorted]

\* main.py:276-335: sort, rank, write the sorted key (the write may fail), answer
Finish(req, exchanges, source, builtAt, calls, upstream, baseWritten, sortSetOk) ==
  LET key == SortCacheKey(req.sort_by, req.descending)
      ranked == SortAndRank(exchanges, req.sort_by, req.descending)
  IN /\ last' = [req EXCEPT !.status = "success", !.code = 200, !.data = ranked,
                            !.source = source, !.builtAt = builtAt, !.calls = calls,
                            !.upstream = upstream, !.presort = exchanges,
                            !.sortSet = (IF sortSetOk THEN "ok" ELSE "fail"),
                            !.writes = (IF baseWritten THEN {"base"} ELSE {})
                                         \cup (IF sortSetOk THEN {"sorted"} ELSE {})]
     /\ cache' =
          [base |-> IF baseWritten
                    THEN SetEx(Payload(exchanges), CACHE_TTL, now, builtAt)
                    ELSE cache.base,
           sorted |-> IF sortSetOk
                      THEN [cache.sorted EXCEPT
                              ![key] = SetEx(Payload(ranked), CACHE_TTL, now, builtAt)]
                      ELSE cache.sorted]

\* One listing request. The parameters are what the outside world may do during
\* the request: how the two Redis reads end, how the two provider calls end,
\* whether a SETEX goes through, and how the calls to the quote provider end.
ListingRequest(maxRequests, redisGets, metas, ticks, setOks, gateways) ==
  /\ reqCount < maxRequests
  /\ reqCount' = reqCount + 1
  /\ UNCHANGED <<now, sorter, workers, bot, history>>
  /\ \E rk \in RequestKeys, redisGet \in redisGets :
       LET sort_by == rk[1]
           descending == rk[2]
           req == Request(sort_by, descending, redisGet)
           base_cached_data == CacheGet(cache.base, now)
           sorted_entry == cache.sorted[SortCacheKey(sort_by, descending)]
           sorted_cached_data == CacheGet(sorted_entry, now)
       IN IF redisGet # "ok"
          THEN \* main.py:235, 239: the get raises inside the try
               /\ last' = ServiceError(req, {}, "none")
               /\ UNCHANGED <<cache, custom_exchanges>>
          ELSE IF sorted_cached_data # NoPayload
          THEN /\ last' = SortedHit(req, sorted_entry)
               /\ UNCHANGED <<cache, custom_exchanges>>
          ELSE IF base_cached_data # NoPayload
          THEN \* main.py:249-259
               /\ UNCHANGED custom_exchanges
               /\ \E sortSetOk \in setOks :
                    Finish(req, base_cached_data.data, "base", cache.base.builtAt, {}, "none",
                           FALSE, sortSetOk)
          ELSE \* main.py:260-274
               \E meta \in metas, tick \in ticks,
                  answers \in [PercentIndexes(custom_exchanges) -> gateways] :
                 LET prices == [i \in PercentIndexes(custom_exchanges) |->
                                  GetBinanceLtcPrice(answers[i])]
                     fetched == FetchExchangeData(meta, tick, prices, custom_exchanges)
                     asked == [req EXCEPT !.metaIn = meta,
                                          !.tickersIn = IF meta = "raise" THEN <<>>
                                                        ELSE tick.tickers,
                                          !.tickIn = IF meta = "raise" THEN "none"
                                                     ELSE tick.kind,
                                          !.tickStatus = IF meta = "raise" THEN 0
                                                         ELSE tick.status,
                                          !.pricesIn =
                                             [i \in 1..Len(custom_exchanges) |->
                                                IF i \in PercentIndexes(custom_exchanges)
                                                THEN prices[i] ELSE -1],
                                          !.gatewaysIn =
                                             [i \in 1..Len(custom_exchanges) |->
                                                IF i \in PercentIndexes(custom_exchanges)
                                                THEN answers[i].kind ELSE "none"]]
                 IN IF fetched.kind # "ok"
                    THEN /\ last' = ServiceError(asked, fetched.calls, fetched.kind)
                         /\ UNCHANGED <<cache, custom_exchanges>>
                    ELSE /\ custom_exchanges' =
                              StoreAfterMerge(custom_exchanges, fetched.exchanges)
                         /\ \E baseSetOk \in setOks, sortSetOk \in setOks :
                              Finish([asked EXCEPT
                                        !.baseSet = IF baseSetOk THEN "ok" ELSE "fail"],
                                     fetched.exchanges, "fetch", now, fetched.calls,
                                     "ok", baseSetOk, sortSetOk)

\* GET /api/ltc-exchanges with Redis and the providers free to fail
GetLtcExchanges ==
  ListingRequest(MaxRequests, {"ok", "raise_base", "raise_sorted"}, MetaOutcomes,
                 TickerOutcomes, BOOLEAN, BinanceAnswers)

\* GET /api/ltc-exchanges while Redis and the providers answer
GetLtcExchangesHealthy ==
  ListingRequest(MaxRequests + 1, {"ok"}, {"ok"},
                 {t \in TickerOutcomes : t.kind = "ok"}, {TRUE}, BinanceAnswers)

-----------------------------------------------------------------------------
(* The administrative operations on the store *)

\* POST /api/custom-exchanges, main.py:97-133. The entry is stored under the
\* lower-cased name, replacing the entry already there.
PostRequest(maxRequests, bodies, gateways) ==
  /\ reqCount < maxRequests
  /\ reqCount' = reqCount + 1
  /\ \E body \in bodies, answer \in gateways :
       LET exchange_id == Lower(body.exchange)
           r == GetBinanceLtcPrice(answer)
       IN /\ exchange_id \in Keys(custom_exchanges) \/ Len(custom_exchanges) < MaxStore
          /\ custom_exchanges' =
               DictSet(custom_exchanges, exchange_id, NewCustomExchange(body, r))
          /\ last' = [NoLast EXCEPT !.op = "post", !.at = now, !.status = "success",
                                    !.code = 200, !.name = body.exchange,
                                    !.calls = IF body.price_percent.has THEN {"binance"}
                                              ELSE {},
                                    !.refPrice = IF body.price_percent.has THEN r ELSE -1,
                                    !.gateway = IF body.price_percent.has
                                                THEN answer.kind ELSE "none",
                                    !.storeSize = Len(custom_exchanges)]
  /\ UNCHANGED <<now, cache, sorter, workers, bot, history>>

AddCustomExchange == PostRequest(MaxRequests + 1, PostBodies, BinanceAnswers)

\* DELETE /api/custom-exchanges/{exchange_name}, main.py:145-160
DeleteRequest(maxRequests) ==
  /\ reqCount < maxRequests
  /\ reqCount' = reqCount + 1
  /\ \E exchange_name \in DeleteNames :
       LET exchange_id == Lower(exchange_name)
           req == [NoLast EXCEPT !.op = "delete", !.at = now, !.name = exchange_name,
                                 !.storeSize = Len(custom_exchanges)]
       IN IF exchange_id \in Keys(custom_exchanges)
          THEN /\ custom_exchanges' = DictDel(custom_exchanges, exchange_id)
               /\ last' = [req EXCEPT !.status = "success", !.code = 200,
                                      !.stored = custom_exchanges[IndexOfKey(
                                                   custom_exchanges, exchange_id)].value.exchange]
          ELSE /\ UNCHANGED custom_exchanges
               /\ last' = [req EXCEPT !.status = "error", !.code = 404]
  /\ UNCHANGED <<now, cache, sorter, workers, bot, history>>

DeleteCustomExchange == DeleteRequest(MaxRequests + 1)

\* a variant of PatchRequest: a PATCH on an unknown name creates the entry
PatchRequestCreating(maxRequests, names, bodies, gateways) ==
  /\ reqCount < maxRequests
  /\ reqCount' = reqCount + 1
  /\ \E exchange_name \in names, body \in bodies, answer \in gateways :
       LET exchange_id == Lower(exchange_name)
           r == GetBinanceLtcPrice(answer)
           blank == ExchangeData(0, exchange_name, "LTC/USDT", FormatPrice(0), NoValue,
                                 FormatMoney(0), FormatMoney(0), FormatMoney(0),
                                 FormatPercent(0), None, None)
           exchange == IF exchange_id \in Keys(custom_exchanges)
                       THEN custom_exchanges[IndexOfKey(custom_exchanges, exchange_id)].value
                       ELSE blank
       IN /\ custom_exchanges' =
               DictSet(custom_exchanges, exchange_id, UpdatedExchange(exchange, body, r))
          /\ last' = [NoLast EXCEPT !.op = "patch", !.at = now, !.name = exchange_name,
                                    !.body = body, !.storeSize = Len(custom_exchanges),
                                    !.status = "success", !.code = 200,
                                    !.calls = IF body.price_percent.has
                                              THEN {"binance"} ELSE {},
                                    !.refPrice = IF body.price_percent.has THEN r ELSE -1,
                                    !.gateway = IF body.price_percent.has
                                                THEN answer.kind ELSE "none"]
  /\ UNCHANGED <<now, cache, sorter, workers, bot, history>>

\* PATCH /api/custom-exchanges/{exchange_name}, main.py:162-219: the stored
\* entry is changed in place
PatchRequest(maxRequests, names, bodies, gateways) ==
  /\ reqCount < maxRequests
  /\ reqCount' = reqCount + 1
  /\ \E exchange_name \in names, body \in bodies, answer \in gateways :
       LET exchange_id == Lower(exchange_name)
           r == GetBinanceLtcPrice(answer)
           req == [NoLast EXCEPT !.op = "patch", !.at = now, !.name = exchange_name,
                                 !.body = body, !.storeSize = Len(custom_exchanges)]
       IN IF exchange_id \notin Keys(custom_exchanges)
          THEN /\ UNCHANGED custom_exchanges
               /\ last' = [req EXCEPT !.status = "error", !.code = 404]
          ELSE LET exchange == custom_exchanges[IndexOfKey(custom_exchanges, exchange_id)].value
               IN /\ custom_exchanges' =
                       DictSet(custom_exchanges, exchange_id,
                               UpdatedExchange(exchange, body, r))
                  /\ last' = [req EXCEPT !.status = "success", !.code = 200,
                                         !.stored = exchange.exchange,
                                         !.calls = IF body.price_percent.has
                                                   THEN {"binance"} ELSE {},
                                         !.refPrice = IF body.price_percent.has THEN r
                                                      ELSE -1,
                                         !.gateway = IF body.price_percent.has
                                                     THEN answer.kind ELSE "none"]
  /\ UNCHANGED <<now, cache, sorter, workers, bot, history>>

\* the three operations on the store, with every body and name
AddCustomExchangeAny ==
  PostRequest(MaxStoreOps, PostBodies \cup MorePostBodies, BinanceAnswers)

DeleteCustomExchangeAny == DeleteRequest(MaxStoreOps)

UpdateCustomExchange == PatchRequest(MaxStoreOps, PatchNames, PatchBodies, BinanceAnswers)

\* the requests that call the quote provider, whatever the provider does
AddCustomExchangeUnquoted == PostRequest(MaxRequests + 1, PostBodies, BinanceOutcomes)

UpdateCustomExchangeUnquoted ==
  PatchRequest(MaxRequests + 1, PatchNames, PatchBodies, BinanceOutcomes)

GetLtcExchangesUnquoted ==
  ListingRequest(MaxRequests + 1, {"ok"}, {"ok"},
                 {t \in TickerOutcomes : t.kind = "ok"}, {TRUE}, BinanceOutcomes)

-----------------------------------------------------------------------------
(* Time *)

\* time passes; Redis drops the keys whose time to live is over
TickUpTo(maxTime) ==
  /\ now + TickStep <= maxTime
  /\ now' = now + TickStep
  /\ cache' = [base |-> Expire(cache.base, now'),
               sorted |-> [k \in RequestKeys |-> Expire(cache.sorted[k], now')]]
  /\ UNCHANGED <<custom_exchanges, last, reqCount, sorter, workers, bot, history>>

Tick == TickUpTo(MaxTime)

TickLong == TickUpTo(MaxTime + TickStep)

-----------------------------------------------------------------------------
(* Listing requests served side by side, main.py:232-335. Each request is a
   sequence of steps: the two GET, the fetch, the SETEX of the base key, the sort
   with the SETEX of the sorted key. Redis executes one command at a time; the
   steps of different requests interleave in every order. *)

MaxWorkers == 2

\* the sort parameters of the requests that race
RaceKeys == {<<None, TRUE>>, <<None, FALSE>>}

\* a request not yet arrived; source is the collection the request sorts
\* ("fetch", "base") or "sorted" when it answers from the sorted key
NoWorker ==
  [pc |-> "idle", sort_by |-> None, descending |-> TRUE, base_cached_data |-> NoPayload,
   source |-> "none", fetched |-> <<>>, exchanges |-> <<>>]

\* log lists the SETEX commands in the order Redis executed them, on the base
\* key (tier "base") or on the sorted key of a pair of sort parameters
NoWorkers == [request |-> [w \in 1..MaxWorkers |-> NoWorker], log |-> <<>>]

\* a variant of RedisSetEx: the rows are added to the value the key holds
RedisSetExAppending(entry, payload, ttl, t) ==
  SetEx(Payload(entry.payload.data \o payload.data), ttl, t, t)

\* redis_client.setex(key, CACHE_TTL, value) on a key holding entry: the value
\* is replaced as a whole
RedisSetEx(entry, payload, ttl, t) == SetEx(payload, ttl, t, t)

\* main.py:234-235: the request arrives and reads the base key
WorkerGetBase(w) ==
  /\ workers.request[w].pc = "idle"
  /\ \E key \in RaceKeys :
       workers' = [workers EXCEPT
                     !.request[w] = [NoWorker EXCEPT
                                       !.pc = "get_sorted", !.sort_by = key[1],
                                       !.descending = key[2],
                                       !.base_cached_data = CacheGet(cache.base, now)]]
  /\ UNCHANGED <<now, custom_exchanges, cache, last, reqCount, sorter, bot, history>>

\* main.py:238-263: the request reads its sorted key and answers from it, or goes
\* on with the base payload it read, or goes to the providers
WorkerGetSorted(w) ==
  LET me == workers.request[w]
      sorted_cached_data == CacheGet(cache.sorted[SortCacheKey(me.sort_by, me.descending)], now)
  IN /\ me.pc = "get_sorted"
     /\ workers' = [workers EXCEPT !.request[w] =
          IF sorted_cached_data # NoPayload
          THEN [me EXCEPT !.pc = "done", !.source = "sorted",
                          !.exchanges = sorted_cached_data.data]
          ELSE IF me.base_cached_data # NoPayload
          THEN [me EXCEPT !.pc = "sort", !.source = "base",
                          !.fetched = me.base_cached_data.data,
                          !.exchanges = me.base_cached_data.data]
          ELSE [me EXCEPT !.pc = "fetch"]]
     /\ UNCHANGED <<now, custom_exchanges, cache, last, reqCount, sorter, bot, history>>

\* main.py:263: await fetch_exchange_data_from_api(), the providers answering
WorkerFetch(w) ==
  LET me == workers.request[w]
  IN /\ me.pc = "fetch"
     /\ \E tick \in {o \in TickerOutcomes : o.kind = "ok"} :
          LET fetched == FetchExchangeData("ok", tick, <<>>, custom_exchanges).exchanges
          IN workers' = [workers EXCEPT !.request[w] =
                           [me EXCEPT !.pc = "set_base", !.source = "fetch",
                                      !.fetched = fetched, !.exchanges = fetched]]
     /\ UNCHANGED <<now, custom_exchanges, cache, last, reqCount, sorter, bot, history>>

\* main.py:266-271: the fetched collection is written under the base key
WorkerSetBase(w) ==
  LET me == workers.request[w]
      payload == Payload(me.exchanges)
  IN /\ me.pc = "set_base"
     /\ cache' = [cache EXCEPT !.base = RedisSetEx(cache.base, payload, CACHE_TTL, now)]
     /\ workers' = [workers EXCEPT
                      !.request[w].pc = "sort",
                      !.log = Append(@, [tier |-> "base", key |-> <<None, TRUE>>, by |-> w, payload |-> payload])]
     /\ UNCHANGED <<now, custom_exchanges, last, reqCount, sorter, bot, history>>

\* main.py:280-335: the collection is sorted and ranked, written under the
\* sorted key and returned
WorkerSetSorted(w) ==
  LET me == workers.request[w]
      key == SortCacheKey(me.sort_by, me.descending)
      payload == Payload(SortAndRank(me.exchanges, me.sort_by, me.descending))
  IN /\ me.pc = "sort"
     /\ cache' = [cache EXCEPT
                    !.sorted[key] = RedisSetEx(cache.sorted[key], payload, CACHE_TTL, now)]
     /\ workers' = [workers EXCEPT
                      !.request[w].pc = "done",
                      !.request[w].exchanges = payload.data,
                      !.log = Append(@, [tier |-> "sorted", key |-> key, by |-> w, payload |-> payload])]
     /\ UNCHANGED <<now, custom_exchanges, last, reqCount, sorter, bot, history>>

-----------------------------------------------------------------------------
(* The administrative bot, bot.py. Telegram delivers updates one at a time:
   messages (a user and a text) and callback queries (a user and the data of the
   button pressed). The dispatcher gives an update to the first registered
   handler whose filter accepts it. The conversation state and its data are kept
   per user; exchange_data (bot.py:42) is one dictionary for all users. *)

MaxBotEvents == 9

MaxStrangerEvents == 4

\* bot.py:15, the three ids numbered 1..3
ADMIN_IDS == {1, 2, 3}

\* the users who write to the bot: two administrators and a stranger
BotUsers == {1, 2, 7}

\* the handlers that call get_binance_ltc_price, and those that call the API
AskingPrice == {"add_exchange_price_percent", "update_exchange_value"}

CallingApi == {"add_exchange_icon", "update_exchange_value", "list", "percent_list",
               "update", "delete", "delete_"}

Txt_start == <<"/", "s", "t", "a", "r", "t">>
Txt_cancel == <<"/", "c", "a", "n", "c", "e", "l">>

\* the texts users send: the two commands, a name, a number, and the "-" that
\* skips the icon
BotTexts == {Txt_start, Txt_cancel, Str_MyEx, <<"+", "5">>, <<"-">>}

\* the data of the buttons the bot shows (bot.py:65-71, 270, 298, 400): prefix
\* and rest are the two parts of the string; the fields are keys of
\* UPDATE_FIELDS (bot.py:32-39)
BotButtons ==
  [prefix : {"add", "update", "delete", "list", "percent_list", "back_to_menu"},
   rest : {<<>>}]
    \cup [prefix : {"update_", "delete_"}, rest : {Str_MyEx}]
    \cup [prefix : {"field_"}, rest : {"price_percent", "volume24h", "icon"}]

\* how a call of the custom-exchanges API ends for the bot: an answer 200, for
\* the list with its entries; another answer; an exception of requests
ApiOutcomes ==
  { [kind |-> "ok", names |-> <<Str_MyEx>>], [kind |-> "ok", names |-> <<>>],
    [kind |-> "error", names |-> <<>>], [kind |-> "raise", names |-> <<>>] }

\* the text without its sign
Unsigned(s) == IF s # <<>> /\ Head(s) \in {"+", "-"} THEN Tail(s) ELSE s

\* float(s) does not raise ValueError: an optional sign and a decimal literal
IsFloatText(s) ==
  LET u == Unsigned(s)
  IN /\ \A i \in 1..Len(u) : u[i] \in {DigitChars[d] : d \in 1..10} \cup {"."}
     /\ \E i \in 1..Len(u) : u[i] # "."
     /\ Cardinality({i \in 1..Len(u) : u[i] = "."}) <= 1

\* float(s), in units of 0.01 (0 stands for no value where float raises)
FloatText(s) ==
  IF ~IsFloatText(s) THEN 0
  ELSE IF Head(s) = "-" THEN -ParseFloat(Unsigned(s), 2) ELSE ParseFloat(Unsigned(s), 2)

\* bot.py:140-147 and 343-350: the text of a percent; ok is FALSE where float raises
PercentText(s) ==
  IF s # <<>> /\ Head(s) = "+" THEN [ok |-> IsFloatText(Tail(s)), v |-> FloatText(Tail(s))]
  ELSE IF s # <<>> /\ Head(s) = "-"
  THEN [ok |-> IsFloatText(Tail(s)), v |-> -FloatText(Tail(s))]
  ELSE [ok |-> IsFloatText(s), v |-> FloatText(s)]

\* Command("start"), Command("cancel"): the text is the command, alone or
\* followed by arguments
IsCommand(text, command) ==
  /\ Len(text) >= Len(command) /\ SubSeq(text, 1, Len(command)) = command
  /\ Len(text) > Len(command) => text[Len(command) + 1] = " "

\* no request sent to the custom-exchanges API
NoApiCall == [method |-> "none", name |-> <<>>, json |-> <<>>]

\* data of a conversation (state.update_data)
NoData == [current_exchange |-> None, update_field |-> None]

\* the bot when it starts; event, handler, reply and sent describe the last
\* update handled; entered is what each user typed into the add flow since
\* that user last pressed 'add' (the code keeps exchange_data only)
NoBot ==
  [state |-> [u \in BotUsers |-> None], data |-> [u \in BotUsers |-> NoData],
   exchange_data |-> <<>>, entered |-> [u \in BotUsers |-> <<>>], events |-> 0,
   event |-> [kind |-> "none", user |-> 0, text |-> <<>>, data |-> [prefix |-> "", rest |-> <<>>]],
   handler |-> "none", reply |-> "none", sent |-> NoApiCall, gateway |-> "none"]

\* exchange_data[key] = value
SetItem(d, key, value) == (key :> value) @@ d

\* bot.py:50-74
CmdStart(b, u) ==
  IF u \notin ADMIN_IDS THEN [b EXCEPT !.reply = "no_rights"]
  ELSE [b EXCEPT !.reply = "menu", !.state[u] = "CHOOSE_ACTION"]

\* a variant of AddExchangeName: the name is followed by the icon
AddExchangeNameThenIcon(b, u, text) ==
  [b EXCEPT !.exchange_data = SetItem(@, "exchange", text),
            !.entered[u] = SetItem(@, "exchange", text), !.reply = "ask_percent",
            !.state[u] = "ADD_EXCHANGE_ICON"]

\* bot.py:121-127
AddExchangeName(b, u, text) ==
  [b EXCEPT !.exchange_data = SetItem(@, "exchange", text),
            !.entered[u] = SetItem(@, "exchange", text), !.reply = "ask_percent",
            !.state[u] = "ADD_EXCHANGE_PRICE_PERCENT"]

\* a variant of AddExchangePricePercent: the price is not compared with 0
AddExchangePricePercentOfAnyPrice(b, u, text, o) ==
  IF ~PercentText(text).ok THEN [b EXCEPT !.gateway = o.kind, !.reply = "bad_number"]
  ELSE [b EXCEPT !.gateway = o.kind, !.reply = "ask_volume",
                 !.exchange_data = SetItem(@, "price_percent", PercentText(text).v),
                 !.entered[u] = SetItem(@, "price_percent", PercentText(text).v),
                 !.state[u] = "ADD_EXCHANGE_VOLUME"]

\* bot.py:129-161
AddExchangePricePercent(b, u, text, o) ==
  IF GetBinanceLtcPrice(o) = 0
  THEN [b EXCEPT !.gateway = o.kind, !.reply = "price_unavailable"]
  ELSE IF ~PercentText(text).ok THEN [b EXCEPT !.gateway = o.kind, !.reply = "bad_number"]
  ELSE [b EXCEPT !.gateway = o.kind, !.reply = "ask_volume",
                 !.exchange_data = SetItem(@, "price_percent", PercentText(text).v),
                 !.entered[u] = SetItem(@, "price_percent", PercentText(text).v),
                 !.state[u] = "ADD_EXCHANGE_VOLUME"]

\* a variant of AddExchangeNumber: a text that is not a number is passed over
AddExchangeNumberSkipping(b, u, text, key, next) ==
  IF ~IsFloatText(text) THEN [b EXCEPT !.reply = "bad_number", !.state[u] = next]
  ELSE [b EXCEPT !.exchange_data = SetItem(@, key, FloatText(text)),
                 !.entered[u] = SetItem(@, key, FloatText(text)), !.reply = "ask_next",
                 !.state[u] = next]

\* bot.py:163-205, the four steps that read a number: the key it is stored
\* under and the state that follows
AddExchangeNumber(b, u, text, key, next) ==
  IF ~IsFloatText(text) THEN [b EXCEPT !.reply = "bad_number"]
  ELSE [b EXCEPT !.exchange_data = SetItem(@, key, FloatText(text)),
                 !.entered[u] = SetItem(@, key, FloatText(text)), !.reply = "ask_next",
                 !.state[u] = next]

\* bot.py:207-236: add_exchange_icon and finish_adding
AddExchangeIcon(b, u, text, api) ==
  LET json == IF text # <<"-">> THEN SetItem(b.exchange_data, "icon", text)
              ELSE b.exchange_data
  IN [b EXCEPT !.exchange_data = json,
               !.entered[u] = IF text # <<"-">> THEN SetItem(@, "icon", text) ELSE @,
               !.sent = [method |-> "POST", name |-> <<>>, json |-> json],
               !.reply = IF api.kind = "ok" THEN "added" ELSE "failed",
               !.state[u] = None, !.data[u] = NoData]

\* bot.py:238-250
CmdCancel(b, u) == [b EXCEPT !.reply = "cancelled", !.state[u] = None, !.data[u] = NoData]

\* bot.py:323-380
UpdateExchangeValue(b, u, text, o, api) ==
  LET field == b.data[u].update_field
      exchange_name == b.data[u].current_exchange
      cleared == [b EXCEPT !.state[u] = None, !.data[u] = NoData]
      patch(value) == [cleared EXCEPT
                         !.sent = [method |-> "PATCH", name |-> exchange_name,
                                   json |-> SetItem(<<>>, field, value)],
                         !.reply = IF api.kind = "ok" THEN "updated" ELSE "failed"]
  IN IF field = None \/ exchange_name = None THEN [cleared EXCEPT !.reply = "failed"]
     ELSE IF field = "price_percent"
     THEN IF GetBinanceLtcPrice(o) = 0
          THEN [b EXCEPT !.gateway = o.kind, !.reply = "price_unavailable"]
          ELSE IF ~PercentText(text).ok
          THEN [b EXCEPT !.gateway = o.kind, !.reply = "bad_number"]
          ELSE [patch(PercentText(text).v) EXCEPT !.gateway = o.kind]
     ELSE IF field \in {"volume24h", "plusTwoPercentDepth", "minusTwoPercentDepth",
                        "volumePercentage"}
     THEN IF ~IsFloatText(text) THEN [b EXCEPT !.reply = "bad_number"]
          ELSE patch(FloatText(text))
     ELSE patch(text)

\* the handlers of messages in the order of their registration (bot.py:59, 121,
\* 129, 163, 174, 185, 196, 207, 238, 323): the first whose filter accepts the
\* message handles it
MessageHandler(state, text) ==
  IF IsCommand(text, Txt_start) THEN "cmd_start"
  ELSE IF state = "ADD_EXCHANGE_NAME" THEN "add_exchange_name"
  ELSE IF state = "ADD_EXCHANGE_PRICE_PERCENT" THEN "add_exchange_price_percent"
  ELSE IF state = "ADD_EXCHANGE_VOLUME" THEN "add_exchange_volume"
  ELSE IF state = "ADD_EXCHANGE_DEPTH_PLUS" THEN "add_exchange_depth_plus"
  ELSE IF state = "ADD_EXCHANGE_DEPTH_MINUS" THEN "add_exchange_depth_minus"
  ELSE IF state = "ADD_EXCHANGE_VOLUME_PERCENTAGE" THEN "add_exchange_volume_percentage"
  ELSE IF state = "ADD_EXCHANGE_ICON" THEN "add_exchange_icon"
  ELSE IF IsCommand(text, Txt_cancel) THEN "cmd_cancel"
  ELSE IF state = "UPDATE_EXCHANGE_VALUE" THEN "update_exchange_value"
  ELSE "none"

\* a message arrives: dp.message, bot.py:59-250 and 323-380
BotMessage(maxEvents, users, texts, gateways) ==
  /\ bot.events < maxEvents
  /\ \E u \in users, text \in texts :
       LET h == MessageHandler(bot.state[u], text)
       IN \E o \in IF h \in AskingPrice THEN gateways ELSE {CHOOSE g \in gateways : TRUE},
             api \in IF h \in CallingApi THEN ApiOutcomes
                     ELSE {CHOOSE a \in ApiOutcomes : TRUE} :
       LET b == [bot EXCEPT !.events = @ + 1, !.handler = h, !.reply = "none",
                            !.sent = NoApiCall, !.gateway = "none",
                            !.event = [kind |-> "message", user |-> u, text |-> text,
                                       data |-> [prefix |-> "", rest |-> <<>>]]]
       IN bot' =
            CASE h = "cmd_start" -> CmdStart(b, u)
              [] h = "add_exchange_name" -> AddExchangeName(b, u, text)
              [] h = "add_exchange_price_percent" -> AddExchangePricePercent(b, u, text, o)
              [] h = "add_exchange_volume" ->
                   AddExchangeNumber(b, u, text, "volume24h", "ADD_EXCHANGE_DEPTH_PLUS")
              [] h = "add_exchange_depth_plus" ->
                   AddExchangeNumber(b, u, text, "plusTwoPercentDepth",
                                     "ADD_EXCHANGE_DEPTH_MINUS")
              [] h = "add_exchange_depth_minus" ->
                   AddExchangeNumber(b, u, text, "minusTwoPercentDepth",
                                     "ADD_EXCHANGE_VOLUME_PERCENTAGE")
              [] h = "add_exchange_volume_percentage" ->
                   AddExchangeNumber(b, u, text, "volumePercentage", "ADD_EXCHANGE_ICON")
              [] h = "add_exchange_icon" -> AddExchangeIcon(b, u, text, api)
              [] h = "cmd_cancel" -> CmdCancel(b, u)
              [] h = "update_exchange_value" -> UpdateExchangeValue(b, u, text, o, api)
              [] OTHER -> b
  /\ UNCHANGED <<now, custom_exchanges, cache, last, reqCount, sorter, workers, history>>

\* the handlers of callback queries (bot.py:77, 112, 253, 285, 312, 383, 414,
\* 444, 498); none of them looks at the user or at the conversation state
CallbackHandler(b, u, data, api) ==
  LET get == [b EXCEPT !.sent = [method |-> "GET", name |-> <<>>, json |-> <<>>]]
  IN CASE data.prefix \in {"list", "percent_list", "delete"} ->
            [get EXCEPT !.reply = IF api.kind = "ok" THEN "list" ELSE "failed"]
       [] data.prefix = "add" ->
            [b EXCEPT !.exchange_data = <<>>, !.entered[u] = <<>>, !.reply = "ask_name",
                      !.state[u] = "ADD_EXCHANGE_NAME"]
       [] data.prefix = "update" ->
            IF api.kind = "ok" /\ api.names # <<>>
            THEN [get EXCEPT !.reply = "list", !.state[u] = "UPDATE_EXCHANGE_CHOOSE"]
            ELSE [get EXCEPT !.reply = "failed"]
       [] data.prefix = "update_" ->
            [b EXCEPT !.data[u].current_exchange = data.rest, !.reply = "ask_field",
                      !.state[u] = "UPDATE_EXCHANGE_FIELD"]
       [] data.prefix = "field_" ->
            [b EXCEPT !.data[u].update_field = data.rest, !.reply = "ask_value",
                      !.state[u] = "UPDATE_EXCHANGE_VALUE"]
       [] data.prefix = "delete_" ->
            [b EXCEPT !.sent = [method |-> "DELETE", name |-> data.rest, json |-> <<>>],
                      !.reply = IF api.kind = "ok" THEN "deleted" ELSE "failed"]
       [] data.prefix = "back_to_menu" ->
            [b EXCEPT !.reply = "menu", !.state[u] = "CHOOSE_ACTION"]

\* a button is pressed: dp.callback_query, bot.py:77-119, 253-321, 383-427, 444-512
BotCallback(maxEvents, users, buttons) ==
  /\ bot.events < maxEvents
  /\ \E u \in users, data \in buttons :
       \E api \in IF data.prefix \in CallingApi THEN ApiOutcomes
                  ELSE {CHOOSE a \in ApiOutcomes : TRUE} :
       LET b == [bot EXCEPT !.events = @ + 1, !.handler = data.prefix, !.reply = "none",
                            !.sent = NoApiCall, !.gateway = "none",
                            !.event = [kind |-> "callback", user |-> u, text |-> <<>>,
                                       data |-> data]]
       IN bot' = CallbackHandler(b, u, data, api)
  /\ UNCHANGED <<now, custom_exchanges, cache, last, reqCount, sorter, workers, history>>

\* the updates of one administrator
OnMessage == BotMessage(MaxBotEvents, {1}, BotTexts, BinanceOutcomes)

OnCallback == BotCallback(MaxBotEvents, {1}, BotButtons)

\* the updates of an administrator and of a stranger
OnMessageOfAnyone == BotMessage(MaxStrangerEvents, {1, 7}, BotTexts, BinanceOutcomes)

OnCallbackOfAnyone == BotCallback(MaxStrangerEvents, {1, 7}, BotButtons)

MaxAdminEvents == 9

\* the updates of two administrators who add an exchange: the button 'add', a
\* name, a number, and the "-" that skips the icon
OnMessageOfAdmins ==
  BotMessage(MaxAdminEvents, {1, 2}, {Str_MyEx, <<"+", "5">>, <<"-">>}, BinanceAnswers)

OnCallbackOfAdmins ==
  BotCallback(MaxAdminEvents, {1, 2}, {d \in BotButtons : d.prefix = "add"})

-----------------------------------------------------------------------------
(* The price history: get_ltc_price_history, main.py:626-734 *)

MaxHistoryRequests == 2

\* the values of the days parameter that clients send
HistoryDays == {0, 1, 6, 7, 29, 30, 91}

\* main.py:636-639
ClampDays(days) == IF days > 90 THEN 90 ELSE IF days < 1 THEN 1 ELSE days

\* f"ltc_price_history_new_format:{days}:{daily_close}", main.py:642
PriceHistoryCacheKey(days, daily_close) == <<"ltc_price_history_new_format", days, daily_close>>

\* a variant of PriceHistoryTtl: a week is cached for the shortest time
PriceHistoryTtlShortWeek(days) == IF days >= 30 THEN 43200 ELSE IF days >= 7 THEN 3600 ELSE 21600

\* main.py:721-726
PriceHistoryTtl(days) == IF days >= 30 THEN 43200 ELSE IF days >= 7 THEN 21600 ELSE 3600

\* main.py:704-711; the texts are transliterated
Period(days) ==
  IF days <= 1 THEN <<"24 chasa">>
  ELSE IF days <= 7 THEN <<"7 dney">>
  ELSE IF days <= 30 THEN <<"1 mesyats">>
  ELSE Digits(days) \o <<" dney">>

\* the 'prices' of a market_chart answer: [timestamp, price] pairs in time order,
\* the timestamp in hours since 2024-01-01 00:00 local time, the price in units of
\* 0.001 (no price ends in 5, so that round(price, 2) has no tie)
MarketChartPrices == << <<200, 70123>>, <<210, 70456>>, <<216, 71009>>, <<230, 71002>> >>

\* outcome of requests.get(.../market_chart): a 200 with prices, another status,
\* or an exception
MarketChartOutcomes ==
  { [kind |-> "ok", status |-> 200, prices |-> MarketChartPrices],
    [kind |-> "non200", status |-> 429, prices |-> <<>>],
    [kind |-> "raise", status |-> 0, prices |-> <<>>] }

\* datetime.fromtimestamp(timestamp / 1000), main.py:678, 695, for a moment of
\* January 2024
DateOf(timestamp) == [year |-> 2024, month |-> 1, day |-> 1 + (timestamp \div 24)]

\* f"{date_obj.year}-{date_obj.month}-{date_obj.day}", main.py:679
DateKey(d) == Digits(d.year) \o <<"-">> \o Digits(d.month) \o <<"-">> \o Digits(d.day)

\* {'date': f"{date_obj.month}/{date_obj.day}", 'price': round(price, 2)},
\* main.py:683-686, 698-701: the price in units of 0.01
PriceHistoryItem(item) ==
  [date |-> Digits(DateOf(item[1]).month) \o <<"/">> \o Digits(DateOf(item[1]).day),
   price |-> RoundDiv(item[2], 10)]

\* sorted(daily_prices.keys()), main.py:689: the keys are strings
RECURSIVE SortedStrings(_)
SortedStrings(S) ==
  IF S = {} THEN <<>>
  ELSE LET m == CHOOSE k \in S : \A j \in S \ {k} : StrLess(k, j)
       IN <<m>> \o SortedStrings(S \ {m})

\* main.py:672-701: with daily_close the last price of each day, in the order of
\* the day keys; else every price in the order received
PriceHistory(prices, daily_close) ==
  IF daily_close
  THEN LET keyAt == [i \in 1..Len(prices) |-> DateKey(DateOf(prices[i][1]))]
           keys == SortedStrings({keyAt[i] : i \in 1..Len(prices)})
           lastOf(k) == CHOOSE i \in 1..Len(prices) :
                          keyAt[i] = k /\ \A j \in (i + 1)..Len(prices) : keyAt[j] # k
       IN [n \in 1..Len(keys) |-> PriceHistoryItem(prices[lastOf(keys[n])])]
  ELSE [i \in 1..Len(prices) |-> PriceHistoryItem(prices[i])]

\* no request served, no key set. served lists the requests in the order served:
\* their parameters, the key and the response, the time to live where the key
\* was written (0 where it was not)
NoHistory == [cache |-> <<>>, served |-> <<>>]

\* GET /api/ltc-price-history?days=..&daily_close=.., main.py:634-734
GetLtcPriceHistory ==
  /\ Len(history.served) < MaxHistoryRequests
  /\ \E d \in HistoryDays, daily_close \in BOOLEAN :
       LET days == ClampDays(d)
           cache_key == PriceHistoryCacheKey(days, daily_close)
           cached_data == IF cache_key \in DOMAIN history.cache
                          THEN CacheGet(history.cache[cache_key], now) ELSE NoPayload
           req == [days_in |-> d, daily_close |-> daily_close, days |-> days,
                   cache_key |-> cache_key, source |-> "none", status |-> "error",
                   code |-> 500, data |-> <<>>, period |-> <<>>, ttl |-> 0]
       IN IF cached_data # NoPayload
          THEN \* main.py:645-648
               history' = [history EXCEPT !.served =
                             Append(@, [req EXCEPT !.source = "cache", !.status = "success",
                                                   !.code = 200, !.data = cached_data.data,
                                                   !.period = cached_data.period])]
          ELSE \E o \in MarketChartOutcomes, setOk \in BOOLEAN :
                 LET ttl == PriceHistoryTtl(days)
                     result == [status |-> "success",
                                data |-> PriceHistory(o.prices, daily_close),
                                currency |-> "USD", period |-> Period(days)]
                 IN IF o.kind # "ok"
                    THEN \* main.py:664-666 or an exception, then main.py:733-734
                         /\ setOk
                         /\ history' = [history EXCEPT !.served =
                                          Append(@, [req EXCEPT !.source = o.kind])]
                    ELSE IF ~setOk
                    THEN \* main.py:729 raises, then main.py:733-734
                         history' = [history EXCEPT !.served =
                                       Append(@, [req EXCEPT !.source = "fetch", !.ttl = ttl])]
                    ELSE history' =
                           [cache |-> (cache_key :> SetEx(result, ttl, now, now)) @@ history.cache,
                            served |-> Append(history.served,
                                              [req EXCEPT !.source = "fetch", !.status = "success",
                                                          !.code = 200, !.data = result.data,
                                                          !.period = result.period, !.ttl = ttl])]
  /\ UNCHANGED <<now, custom_exchanges, cache, last, reqCount, sorter, workers, bot>>

-----------------------------------------------------------------------------
(* The sort-and-rank step on its own *)

NoSorter ==
  [input |-> <<>>, sort_by |-> None, descending |-> TRUE, sorted |-> <<>>,
   first |-> <<>>, output |-> <<>>, calls |-> 0]

\* rows as the fetch builds them and as a POST stores them; they tie on some
\* keys and differ on others
SortRows ==
  { TickerRow(TkBinance, "ok"), TickerRow(TkAex, "ok"), TickerRow(TkBex, "non200"),
    NewCustomExchange(CustomExchangeInput(Lower(Str_Aex), Some(10), 3000000, 2500000,
                                          50000000, 100, None, None), 851234) }

RECURSIVE SeqsUpTo(_, _)
SeqsUpTo(S, n) ==
  IF n = 0 THEN {<<>>}
  ELSE LET shorter == SeqsUpTo(S, n - 1)
       IN shorter \cup {Append(q, x) : q \in {t \in shorter : Len(t) = n - 1}, x \in S}

\* the collections the handler sorts carry the ids 1..N in their order
\* (main.py:464-466, and the base cache holds them as fetched)
InitSort ==
  /\ now = 0
  /\ custom_exchanges = <<>>
  /\ cache = [base |-> NoEntry, sorted |-> [k \in RequestKeys |-> NoEntry]]
  /\ last = NoLast
  /\ reqCount = 0
  /\ \E rows \in SeqsUpTo(SortRows, MaxSortLen), sort_by \in SortOptions,
        descending \in BOOLEAN :
       sorter = [NoSorter EXCEPT !.input = AssignIds(rows), !.sort_by = sort_by,
                                 !.descending = descending, !.output = AssignIds(rows)]
  /\ workers = NoWorkers
  /\ bot = NoBot
  /\ history = NoHistory

\* main.py:280-313 applied to the collection as the previous call left it; sorted
\* is the collection between the sort and the reassignment of the ids
SortStep ==
  /\ sorter.calls < 2
  /\ sorter' = [sorter EXCEPT
                  !.sorted = SortExchanges(sorter.output, sorter.sort_by, sorter.descending),
                  !.output = SortAndRank(sorter.output, sorter.sort_by, sorter.descending),
                  !.first = IF sorter.calls = 0
                            THEN SortAndRank(sorter.output, sorter.sort_by, sorter.descending)
                            ELSE sorter.first,
                  !.calls = sorter.calls + 1]
  /\ UNCHANGED <<now, custom_exchanges, cache, last, reqCount, workers, bot, history>>

-----------------------------------------------------------------------------
(* The specifications *)

Init ==
  /\ now = 0
  /\ custom_exchanges = <<>>
  /\ cache = [base |-> NoEntry, sorted |-> [k \in RequestKeys |-> NoEntry]]
  /\ last = NoLast
  /\ reqCount = 0
  /\ sorter = NoSorter
  /\ workers = NoWorkers
  /\ bot = NoBot
  /\ history = NoHistory

\* the listing endpoint and the clock, with Redis and the providers free to fail
Next ==
  \/ GetLtcExchanges
  \/ Tick

Spec == Init /\ [][Next]_vars

\* the listing endpoint, the store's operations and the clock while Redis and
\* the providers answer
NextHealthy ==
  \/ GetLtcExchangesHealthy
  \/ AddCustomExchange
  \/ DeleteCustomExchange
  \/ TickLong

SpecHealthy == Init /\ [][NextHealthy]_vars

\* the operations on the store: POST, PATCH and DELETE in every order, the
\* reference price available or not
NextStore ==
  \/ AddCustomExchangeAny
  \/ UpdateCustomExchange
  \/ DeleteCustomExchangeAny

SpecStore == Init /\ [][NextStore]_vars

\* the sort-and-rank step applied once and twice to collections of every shape
NextSort == SortStep

SpecSort == InitSort /\ [][NextSort]_vars

\* listing requests racing on the same keys while Redis and the providers answer
NextRace ==
  \E w \in 1..MaxWorkers :
    \/ WorkerGetBase(w)
    \/ WorkerGetSorted(w)
    \/ WorkerFetch(w)
    \/ WorkerSetBase(w)
    \/ WorkerSetSorted(w)

SpecRace == Init /\ [][NextRace]_vars

\* the bot: the messages and the button presses of its users, in every order
NextBot ==
  \/ OnMessage
  \/ OnCallback

SpecBot == Init /\ [][NextBot]_vars

\* the bot: a few updates sent by administrators and strangers alike
NextBotOfAnyone ==
  \/ OnMessageOfAnyone
  \/ OnCallbackOfAnyone

SpecBotOfAnyone == Init /\ [][NextBotOfAnyone]_vars

\* the requests that ask for the reference price, the quote provider free to
\* fail in every way
NextGateway ==
  \/ AddCustomExchangeUnquoted
  \/ UpdateCustomExchangeUnquoted
  \/ GetLtcExchangesUnquoted

SpecGateway == Init /\ [][NextGateway]_vars

\* the price-history endpoint alone
NextHistory == GetLtcPriceHistory

SpecHistory == Init /\ [][NextHistory]_vars

\* the bot: two administrators in the add flow, their updates in every order
NextBotOfAdmins ==
  \/ OnMessageOfAdmins
  \/ OnCallbackOfAdmins

SpecBotOfAdmins == Init /\ [][NextBotOfAdmins]_vars

-----------------------------------------------------------------------------
(* Properties of the listing endpoint *)

\* a successful listing response
Listed == last.op = "listing" /\ last.status = "success"

\* the step is a listing request whose two Redis reads went through
ListingStep == reqCount' = reqCount + 1 /\ last'.op = "listing" /\ last'.redisGet = "ok"

\* the sorted key of the request served by the step, before the step
OwnKey == SortCacheKey(last'.sort_by, last'.descending)

SortedLive == now < cache.sorted[OwnKey].expiresAt

BaseLive == now < cache.base.expiresAt

\* the rows follow the criterion's key: non-increasing when descending, else
\* non-decreasing
Ordered(rows, sort_by, descending) ==
  \A i \in 1..(Len(rows) - 1) :
    IF descending THEN ~KeyLess(sort_by, rows[i], rows[i + 1])
    ELSE ~KeyLess(sort_by, rows[i + 1], rows[i])

Ranked(rows) == \A i \in 1..Len(rows) : rows[i].id = i

Volumes(rows) == [i \in 1..Len(rows) |-> rows[i].volume24h]

\* C1: every payload served from a sorted-cache hit was derived from a merged
\* collection built no more than one TTL (180 s) before the response.
C1_SortedHitNoOlderThanTTL ==
  (Listed /\ last.source = "sorted") => last.at - last.builtAt <= CACHE_TTL

\* C2: a request that finds a live sorted-cache entry for its key returns exactly
\* the stored payload, calls no provider and writes no cache key (no TTL extended).
C2_SortedHitReturnsStoredPayload ==
  [][ (ListingStep /\ SortedLive)
        => /\ last'.status = "success"
           /\ last'.data = cache.sorted[OwnKey].payload.data
           /\ last'.calls = {}
           /\ cache' = cache ]_vars

C2_Witness ==
  Listed /\ last.source = "sorted" /\ last.hadSorted /\ Len(last.data) = 3

\* C3: a request that misses the sorted cache but reads a live base-cache entry
\* calls no provider, sorts and ranks the base-cache contents, writes at most the
\* sorted key of its own (criterion, descending) and leaves the base entry (value
\* and expiry) unchanged.
C3_BaseHitSkipsFetch ==
  [][ (ListingStep /\ ~SortedLive /\ BaseLive)
        => /\ last'.status = "success"
           /\ last'.calls = {}
           /\ last'.data = SortAndRank(cache.base.payload.data, last'.sort_by,
                                       last'.descending)
           /\ cache'.base = cache.base
           /\ \A k \in RequestKeys : k # OwnKey => cache'.sorted[k] = cache.sorted[k]
           /\ \/ cache'.sorted[OwnKey] = cache.sorted[OwnKey]
              \/ /\ cache'.sorted[OwnKey].payload = Payload(last'.data)
                 /\ cache'.sorted[OwnKey].expiresAt = now + CACHE_TTL ]_vars

C3_Witness ==
  /\ Listed /\ last.source = "base" /\ last.hadBase /\ ~last.hadSorted
  /\ last.writes = {"sorted"} /\ Len(last.data) = 3
  /\ cache.sorted[SortCacheKey(last.sort_by, last.descending)].payload = Payload(last.data)

\* C4: in every successful listing response with N rows, from the sorted cache,
\* the base cache or a fresh fetch, the row at position i has id i.
C4_IdsAreRanks == Listed => Ranked(last.data)

C4_Witness ==
  /\ Listed /\ last.source = "base" /\ last.sort_by = "id" /\ last.descending
  /\ Len(last.data) = 3 /\ last.presort[1].exchange = last.data[3].exchange
  /\ last.presort[1].exchange # last.data[1].exchange

\* C6: when no criterion is requested the rows are ordered by volume24h descending
\* and ranked 1..N, whatever the descending flag; upstream volumes 500000, 2000000,
\* 10000 come out as 2000000, 500000, 10000 with ids 1, 2, 3.
C6_DefaultIsVolumeDescending ==
  (Listed /\ last.sort_by = None)
    => /\ Ordered(last.data, "volume", TRUE)
       /\ Ranked(last.data)
       /\ (last.source # "sorted"
             /\ Volumes(last.presort)
                  = <<FormatMoney(500000), FormatMoney(2000000), FormatMoney(10000)>>)
            => Volumes(last.data)
                 = <<FormatMoney(2000000), FormatMoney(500000), FormatMoney(10000)>>

C6_Witness ==
  /\ Listed /\ last.sort_by = None /\ ~last.descending /\ last.source = "fetch"
  /\ Volumes(last.presort)
       = <<FormatMoney(500000), FormatMoney(2000000), FormatMoney(10000)>>
  /\ last.data[1].id = 1 /\ last.data[1].volume24h = FormatMoney(2000000)

\* C9: if both cache tiers miss and the upstream ticker fetch fails (non-200 or
\* malformed answer), the request returns a service error, no listing data, and
\* writes neither the base key nor any sorted key.
C9_UpstreamFailureIsServiceError ==
  [][ (ListingStep /\ ~SortedLive /\ ~BaseLive /\ last'.tickIn \in {"non200", "raise"})
        => /\ last'.status = "error"
           /\ last'.code = 500
           /\ last'.data = <<>>
           /\ cache' = cache ]_vars

C9_Witness ==
  /\ last.op = "listing" /\ last.status = "error" /\ last.tickIn = "non200"
  /\ ~last.hadSorted /\ ~last.hadBase /\ "tickers" \in last.calls

\* C10: a cache read failure (the store raising on the get of the base or of the
\* sorted key) is handled like a miss: the request goes on to fetch or reuse, sort
\* and rank, and answers with the computed data instead of an error.
C10_ReadFailureIsMiss ==
  (last.op = "listing" /\ last.redisGet # "ok")
    => (last.status = "success" \/ "tickers" \in last.calls)

\* C11: a cache write failure is not fatal: when the write of the base key or of
\* the sorted key fails, the request still answers success with the collection in
\* hand sorted and ranked (what it answers when the writes go through), and a failed
\* base write does not prevent the attempt to write the sorted key.
C11_WriteFailureIsNotFatal ==
  [][ (ListingStep /\ ~SortedLive /\ (BaseLive \/ last'.tickIn = "ok")
         /\ (last'.baseSet = "fail" \/ last'.sortSet # "ok"))
        => /\ last'.status = "success" /\ last'.code = 200
           /\ last'.data = SortAndRank(last'.presort, last'.sort_by, last'.descending)
           /\ BaseLive => last'.presort = cache.base.payload.data
           /\ last'.baseSet = "fail"
                => /\ last'.sortSet \in {"ok", "fail"}
                   /\ cache'.base = cache.base
                   /\ last'.sortSet = "ok"
                        => cache'.sorted[OwnKey] = SetEx(Payload(last'.data), CACHE_TTL,
                                                        now, now)
           /\ last'.sortSet = "fail" => cache'.sorted = cache.sorted ]_vars

C11_Witness ==
  /\ Listed /\ last.source = "fetch" /\ last.baseSet = "fail" /\ last.sortSet = "ok"
  /\ last.writes = {"sorted"} /\ Len(last.data) = 3
  /\ cache.base = NoEntry
  /\ cache.sorted[SortCacheKey(last.sort_by, last.descending)].payload = Payload(last.data)

-----------------------------------------------------------------------------
(* Properties of the sort-and-rank step *)

\* the criterion the sort compares by
Effective(sort_by) == IF sort_by = None THEN "volume" ELSE sort_by

SortedOnce == sorter.calls = 1

SortedTwice == sorter.calls = 2

\* C5 as stated: for every supported criterion the rows of a freshly computed
\* response are ordered by the criterion's key, non-increasing when descending and
\* non-decreasing otherwise.
C5_OrderedByCriterion ==
  (SortedOnce /\ sorter.sort_by \in SortCriteria)
    => Ordered(sorter.output, sorter.sort_by, sorter.descending)

\* C5 amended: that holds for every criterion but id; for id the rows are ordered
\* by the ids they carried before the sort, and the ids of the response are 1..N
\* ascending in both directions.
C5_OrderedByCriterionExceptId ==
  (SortedOnce /\ sorter.sort_by \in SortCriteria)
    => IF sorter.sort_by = "id"
       THEN Ordered(sorter.sorted, "id", sorter.descending) /\ Ranked(sorter.output)
       ELSE Ordered(sorter.output, sorter.sort_by, sorter.descending)

C5_Witness ==
  /\ SortedOnce /\ sorter.sort_by = "price" /\ sorter.descending
  /\ Len(sorter.output) = 3
  /\ KeyLess("price", sorter.input[1], sorter.input[2])
  /\ KeyLess("price", sorter.output[3], sorter.output[1])

\* C7: the sort is stable for every criterion and in both directions: two rows
\* of equal key keep the relative order they had in the input.
C7_SortIsStable ==
  SortedOnce
    => \A i, j \in 1..Len(sorter.sorted) :
         (i < j /\ KeyEqual(Effective(sorter.sort_by), sorter.sorted[i], sorter.sorted[j]))
           => sorter.sorted[i].id < sorter.sorted[j].id

C7_Witness ==
  /\ SortedOnce /\ sorter.sort_by = "volume" /\ sorter.descending
  /\ Len(sorter.sorted) = 3
  /\ KeyEqual("volume", sorter.sorted[2], sorter.sorted[3])
  /\ sorter.sorted[2].exchange # sorter.sorted[3].exchange
  /\ sorter.sorted[1].id = 3

\* C8 as stated: calling the step twice in succession with the same criterion
\* and direction gives the ordering and ids of calling it once, for every
\* criterion including id and both directions.
C8_Idempotent == SortedTwice => sorter.output = sorter.first

\* C8 amended: that holds for every criterion and direction but id descending,
\* where the second call reverses the order the first call left (the input order
\* is back) and the ids are 1..N after either call.
C8_IdempotentExceptIdDescending ==
  SortedTwice
    => IF sorter.sort_by = "id" /\ sorter.descending
       THEN /\ sorter.output = sorter.input
            /\ sorter.first = AssignIds(Reverse(sorter.input))
            /\ Ranked(sorter.first) /\ Ranked(sorter.output)
       ELSE sorter.output = sorter.first

C8_Witness ==
  /\ SortedTwice /\ sorter.sort_by = "exchange" /\ sorter.descending
  /\ Len(sorter.input) = 3 /\ sorter.first # sorter.input
  /\ \E i \in 1..2 : KeyEqual("exchange", sorter.first[i], sorter.first[i + 1])
                       /\ sorter.first[i] # [sorter.first[i + 1] EXCEPT !.id = i]

-----------------------------------------------------------------------------
(* Properties of the synthetic listing store as the listing shows it *)

\* the rows hold a row with the name of the stored entry c
HasRowNamed(rows, c) == \E j \in 1..Len(rows) : rows[j].exchange = c.exchange

\* the rows hold the copy of the stored entry c: every field of c but the id and
\* the price, which the merge may recompute
HasRowOf(rows, c) ==
  \E j \in 1..Len(rows) : [rows[j] EXCEPT !.id = 0, !.price = c.price] = c

StoredEntries == {custom_exchanges[i].value : i \in 1..Len(custom_exchanges)}

-----------------------------------------------------------------------------
(* Properties of the operations on the store *)

\* the step is a POST, a PATCH, a DELETE
PostStep == reqCount' = reqCount + 1 /\ last'.op = "post"

PatchStep == reqCount' = reqCount + 1 /\ last'.op = "patch"

DeleteStep == reqCount' = reqCount + 1 /\ last'.op = "delete"

\* the key the step addresses
StepKey == Lower(last'.name)

ValueAt(store, k) == store[IndexOfKey(store, k)].value

\* the entries under the keys other than k, by key
Others(store, k) == {store[i] : i \in {j \in 1..Len(store) : store[j].key # k}}

AllPostBodies == PostBodies \cup MorePostBodies

\* C13: after any sequence of POST, PATCH and DELETE every key of the store is the
\* lower-cased name of its entry, so no two entries have names that differ only in
\* case; a POST whose lower-cased name is already a key replaces that entry
\* wholesale (nothing of the old entry is kept) and leaves the size unchanged.
C13_KeysAreLowerCasedNames ==
  [][ /\ \A i \in 1..Len(custom_exchanges') :
           custom_exchanges'[i].key = Lower(custom_exchanges'[i].value.exchange)
      /\ \A i, j \in 1..Len(custom_exchanges') :
           Lower(custom_exchanges'[i].value.exchange)
             = Lower(custom_exchanges'[j].value.exchange) => i = j
      /\ (PostStep /\ StepKey \in Keys(custom_exchanges))
           => /\ Len(custom_exchanges') = Len(custom_exchanges)
              /\ Keys(custom_exchanges') = Keys(custom_exchanges)
              /\ Others(custom_exchanges', StepKey) = Others(custom_exchanges, StepKey)
              /\ \E body \in AllPostBodies :
                   /\ body.exchange = last'.name
                   /\ ValueAt(custom_exchanges', StepKey)
                        = NewCustomExchange(body, last'.refPrice) ]_vars

C13_Witness ==
  /\ last.op = "post" /\ last.name = Str_MYEX /\ last.storeSize = 2
  /\ Len(custom_exchanges) = 2
  /\ custom_exchanges[1].key = Str_myex /\ custom_exchanges[1].value.exchange = Str_MYEX
  /\ custom_exchanges[1].value.price_percent = Some(-100)

\* C14: a DELETE or a PATCH on a name whose lower-cased form is not a key of the
\* store fails with NotFound (404) and leaves the store unchanged: same keys, same
\* size, the same fields in every entry.
C14_UnknownNameIsNotFound ==
  [][ ((DeleteStep \/ PatchStep) /\ StepKey \notin Keys(custom_exchanges))
        => /\ last'.status = "error" /\ last'.code = 404
           /\ custom_exchanges' = custom_exchanges ]_vars

C14_Witness ==
  /\ last.op = "patch" /\ last.code = 404 /\ last.name = Str_OKX
  /\ last.body.price_percent.has
  /\ Len(custom_exchanges) = 2

\* the two names are equal up to the case of their letters
SameNameIgnoringCase(a, b) ==
  Len(a) = Len(b) /\ \A i \in 1..Len(a) : LowerChar(a[i]) = LowerChar(b[i])

\* the positions of the store whose entry has the name, up to case
Matching(store, name) ==
  {i \in 1..Len(store) : SameNameIgnoringCase(store[i].value.exchange, name)}

\* the sequence without its i-th element
Without(s, i) == SubSeq(s, 1, i - 1) \o SubSeq(s, i + 1, Len(s))

\* C15: DELETE matches the key whatever the case: with an entry POSTed as X in
\* the store, a DELETE with any casing of X succeeds, removes that entry and no
\* other, leaves every other entry as it was, and a second DELETE of the name
\* fails with NotFound.
C15_DeleteIgnoresCase ==
  [][ /\ (DeleteStep /\ Matching(custom_exchanges, last'.name) # {})
           => /\ last'.status = "success" /\ last'.code = 200
              /\ \E i \in Matching(custom_exchanges, last'.name) :
                   custom_exchanges' = Without(custom_exchanges, i)
              /\ Matching(custom_exchanges', last'.name) = {}
      /\ (DeleteStep /\ last.op = "post" /\ SameNameIgnoringCase(last.name, last'.name))
           => last'.status = "success"
      /\ (DeleteStep /\ last.op = "delete" /\ last.status = "success"
             /\ SameNameIgnoringCase(last.name, last'.name))
           => /\ last'.status = "error" /\ last'.code = 404
              /\ custom_exchanges' = custom_exchanges ]_vars

C15_Witness ==
  /\ last.op = "delete" /\ last.status = "success"
  /\ last.name = Str_myex /\ last.stored = Str_MYEX
  /\ last.storeSize = 2 /\ Len(custom_exchanges) = 1
  /\ custom_exchanges[1].key = Lower(Str_Binance)

\* a PATCH has just succeeded; the store is as it left it
Patched == last.op = "patch" /\ last.status = "success"

\* the entry the last request addressed
Addressed == ValueAt(custom_exchanges, Lower(last.name))

\* the prices an adjustment of p percent gives with the reference prices r > 0
PercentDerived(p) ==
  {FormatPrice6(PercentPrice(r, p)) : r \in {x \in BinancePrices : x > 0}}

\* C16: after a successful PATCH whose body carries an explicit price (alone or
\* with other fields, price_percent included) the listing's price_percent is unset
\* and its price is the given price; after a successful PATCH whose body carries
\* price_percent the listing's price is the percent-derived one, not a fixed price.
C16_FixedAndPercentExclusive ==
  Patched
    => /\ last.body.price.has
            => /\ Addressed.price_percent = NoValue
               /\ Addressed.price = FormatPrice(last.body.price.v)
       /\ last.body.price_percent.has
            => Addressed.price \in PercentDerived(last.body.price_percent.v)

\* the step is a successful POST or PATCH whose body sets price_percent
SetsPercent ==
  \/ PostStep /\ last'.refPrice >= 0
  \/ PatchStep /\ last'.status = "success" /\ last'.body.price_percent.has

\* the entry the step addressed, after the step
Addressed1 == ValueAt(custom_exchanges', StepKey)

\* C17: price and adjustment never diverge in the store: whatever the reference
\* price (the sentinel 0 included), an operation that sets price_percent = p
\* leaves a price it computed itself (from p and the reference price, or the
\* default 0.0000 when there is none), never a price left over from an earlier
\* adjustment or an earlier fixed price; the other operations keep the pair or
\* unset the adjustment.
C17_PriceFollowsPercent ==
  [][ /\ SetsPercent
           => Addressed1.price
                = IF last'.refPrice > 0
                  THEN FormatPrice6(PercentPrice(last'.refPrice, Addressed1.price_percent.v))
                  ELSE FormatPrice(0)
      /\ (PatchStep /\ last'.status = "success" /\ ~last'.body.price_percent.has)
           => \/ /\ Addressed1.price = ValueAt(custom_exchanges, StepKey).price
                 /\ Addressed1.price_percent
                      = ValueAt(custom_exchanges, StepKey).price_percent
              \/ Addressed1.price_percent = NoValue ]_vars

\* 85.1234 * (1 + p / 100) to 4 decimals, for the adjustments the bodies carry
ExpectedPrice ==
  [p \in {10, -5, 0, -100, -150, 20} |->
     CASE p = 10 -> <<"9", "3", ".", "6", "3", "5", "7">>
       [] p = -5 -> <<"8", "0", ".", "8", "6", "7", "2">>
       [] p = 0 -> <<"8", "5", ".", "1", "2", "3", "4">>
       [] p = -100 -> <<"0", ".", "0", "0", "0", "0">>
       [] p = -150 -> <<"-", "4", "2", ".", "5", "6", "1", "7">>
       [] p = 20 -> <<"1", "0", "2", ".", "1", "4", "8", "1">>]

\* C18: a POST or a PATCH that sets price_percent = p while the reference price
\* is r > 0 leaves the stored price r * (1 + p / 100) rounded to 4 decimals, for
\* every p, negative values and -100 included.
C18_PercentPriceIsComputed ==
  [][ (SetsPercent /\ last'.refPrice > 0)
        => /\ Addressed1.price_percent.has
           /\ PatchStep => Addressed1.price_percent = last'.body.price_percent
           /\ Addressed1.price
                = FormatPrice6(PercentPrice(last'.refPrice, Addressed1.price_percent.v))
           /\ last'.refPrice = 851234
                => Addressed1.price = ExpectedPrice[Addressed1.price_percent.v] ]_vars

C18_Witness ==
  /\ Patched /\ last.body.price_percent = Some(-100) /\ last.body.price.has
  /\ last.refPrice = 851234
  /\ Addressed.price_percent = Some(-100) /\ Addressed.price = FormatPrice(0)
  /\ \E i \in 1..Len(custom_exchanges) :
       /\ custom_exchanges[i].value.price_percent = Some(-150)
       /\ custom_exchanges[i].value.price = ExpectedPrice[-150]

\* C19: a POST with price_percent = p issued while the reference price is the
\* sentinel 0 still creates the listing and reports success; the stored price is
\* the default 0.0000 and the stored price_percent is p.
C19_PostWithoutReferencePrice ==
  [][ (PostStep /\ last'.refPrice = 0)
        => /\ last'.status = "success" /\ last'.code = 200
           /\ StepKey \in Keys(custom_exchanges')
           /\ Addressed1.exchange = last'.name
           /\ Addressed1.price = <<"0", ".", "0", "0", "0", "0">>
           /\ \E body \in AllPostBodies :
                /\ body.exchange = last'.name
                /\ body.price_percent.has
                /\ Addressed1.price_percent = body.price_percent ]_vars

C19_Witness ==
  /\ last.op = "post" /\ last.status = "success" /\ last.refPrice = 0
  /\ last.storeSize = 0 /\ Len(custom_exchanges) = 1
  /\ Addressed.price_percent = Some(-150) /\ Addressed.price = FormatPrice(0)

-----------------------------------------------------------------------------
(* Properties of the merge *)

\* the rows of the merged collection that come from the store
MergedCustomRows ==
  SubSeq(last.presort, Len(last.presort) - Len(custom_exchanges) + 1, Len(last.presort))

\* C20: during a merge, for each stored listing with price_percent = p: if the
\* gateway returns r > 0 the merged row's price is r * (1 + p / 100) to 4
\* decimals; if it returns the sentinel 0 the row carries the listing's stored
\* price and the merge completes with all rows; a listing without price_percent
\* always carries its stored price. (While the last request is a listing the
\* store is as the merge saw it.)
C20_MergePricesSyntheticRows ==
  (Listed /\ last.source = "fetch")
    => /\ Len(last.pricesIn) = Len(custom_exchanges)
       /\ Len(last.presort) - Len(custom_exchanges) \in {2, 3}
       /\ Len(last.data) = Len(last.presort)
       /\ \A i \in 1..Len(custom_exchanges) :
            LET c == custom_exchanges[i].value
                row == MergedCustomRows[i]
                r == last.pricesIn[i]
            IN /\ [row EXCEPT !.id = 0, !.price = c.price] = c
               /\ (c.price_percent.has /\ r > 0)
                    => /\ row.price = FormatPrice6(PercentPrice(r, c.price_percent.v))
                       /\ r = 851234 => row.price = ExpectedPrice[c.price_percent.v]
               /\ (c.price_percent.has /\ r = 0) => row.price = c.price
               /\ ~c.price_percent.has => (r = -1 /\ row.price = c.price)

C20_Witness ==
  /\ Listed /\ last.source = "fetch" /\ Len(custom_exchanges) = 2
  /\ last.pricesIn = <<0, 851234>>
  /\ custom_exchanges[1].value.price = ExpectedPrice[10]
  /\ MergedCustomRows[1].price = ExpectedPrice[10]
  /\ custom_exchanges[2].value.price = FormatPrice(0)
  /\ MergedCustomRows[2].price = ExpectedPrice[-5]

-----------------------------------------------------------------------------
(* The reference-price gateway *)

\* the ways a call of the gateway can end without a price
Unavailable == {"raise", "non200", "malformed"}

\* C21: the reference-price gateway never raises. A transport failure, an
\* answer that is not 200 and a malformed body all make it return 0, and the
\* POST, the PATCH or the merge that called it still succeeds.
C21_GatewayFailureIsZero ==
  /\ last.op \in {"post", "patch"} /\ last.gateway \in Unavailable
       => last.refPrice = 0 /\ last.status = "success" /\ last.code = 200
  /\ last.op = "listing"
       => \A i \in 1..Len(last.gatewaysIn) :
            last.gatewaysIn[i] \in Unavailable
              => last.pricesIn[i] = 0 /\ last.status = "success" /\ last.code = 200

\* a merge during which one call of the gateway met a transport failure and
\* another a malformed body
C21_Witness ==
  /\ last.op = "listing" /\ last.status = "success" /\ last.source = "fetch"
  /\ \E i, j \in 1..Len(last.gatewaysIn) :
       last.gatewaysIn[i] = "raise" /\ last.gatewaysIn[j] = "malformed"

-----------------------------------------------------------------------------
(* Listing requests racing on the same keys *)

\* the cache keys: the base key and the sorted keys
CacheKeys == {<<"base", <<None, TRUE>>>>} \cup ({"sorted"} \X RequestKeys)

\* the value a cache key holds
Held(key) == IF key[1] = "base" THEN cache.base ELSE cache.sorted[key[2]]

\* the SETEX commands executed so far on a key, oldest first
WritesOn(key) == SelectSeq(workers.log, LAMBDA c : c.tier = key[1] /\ c.key = key[2])

\* request w fetched from the providers and has written the base key
WroteBase(w) ==
  workers.request[w].source = "fetch" /\ workers.request[w].pc \in {"sort", "done"}

\* request w has sorted a collection and written the sorted key k
WroteSorted(w, k) ==
  /\ workers.request[w].pc = "done" /\ workers.request[w].source \in {"fetch", "base"}
  /\ SortCacheKey(workers.request[w].sort_by, workers.request[w].descending) = k

\* C22: under every interleaving of concurrent listing requests, every value
\* readable under the base key or a sorted key is one complete payload written by
\* one request, for a sorted key one collection fully sorted and ranked 1..N,
\* never a mixture of the data of two requests; and each key holds the payload of
\* its last writer, in particular once all requests have finished.
C22_RacingWritesAreWholePayloads ==
  /\ cache.base # NoEntry
       => \E w \in 1..MaxWorkers :
            WroteBase(w) /\ cache.base.payload = Payload(workers.request[w].fetched)
  /\ \A k \in RequestKeys :
       cache.sorted[k] # NoEntry
         => LET rows == cache.sorted[k].payload.data
            IN /\ Ranked(rows)
               /\ Ordered(rows, "volume", TRUE)
               /\ \E w \in 1..MaxWorkers :
                    /\ WroteSorted(w, k)
                    /\ rows = SortAndRank(workers.request[w].fetched, k[1], k[2])
  /\ \A key \in CacheKeys :
       IF WritesOn(key) = <<>> THEN Held(key) = NoEntry
       ELSE Held(key).payload = WritesOn(key)[Len(WritesOn(key))].payload

\* two requests missed the same keys, fetched different collections, and both
\* wrote the base key and the same sorted key
C22_Witness ==
  /\ \A w \in 1..MaxWorkers : workers.request[w].pc = "done"
  /\ \E v, w \in 1..MaxWorkers, k \in RaceKeys :
       /\ v # w /\ WroteBase(v) /\ WroteBase(w) /\ WroteSorted(v, k) /\ WroteSorted(w, k)
       /\ workers.request[v].fetched # workers.request[w].fetched
       /\ Len(WritesOn(<<"sorted", k>>)) = 2 /\ Len(WritesOn(<<"base", <<None, TRUE>>>>)) = 2

-----------------------------------------------------------------------------
(* The frame of a PATCH *)

\* the fields of a PATCH body, which are fields of a stored entry as well
UpdatableFields ==
  {"pair", "price", "price_percent", "plusTwoPercentDepth", "minusTwoPercentDepth",
   "volume24h", "volumePercentage", "icon", "url"}

\* the body gives a value for field f
Given(body, f) == IF f \in {"pair", "icon", "url"} THEN body[f] # None ELSE body[f].has

\* the step is a successful PATCH
PatchSuccess == PatchStep /\ last'.status = "success"

-----------------------------------------------------------------------------
(* The administrative bot *)

\* the requests that change the store
Mutating == {"POST", "PATCH", "DELETE"}

\* C24: only trusted operators can mutate synthetic listings through the bot:
\* whatever messages and callback events came before, an event sent by a user
\* whose id is not in ADMIN_IDS never makes the bot send a POST, a PATCH or a
\* DELETE to the custom-exchanges API.
C24_OnlyAdminsMutate ==
  bot.sent.method \in Mutating => bot.event.user \in ADMIN_IDS

\* the states of the add flow, and the states in which an operation is in progress
AddStates ==
  {"ADD_EXCHANGE_NAME", "ADD_EXCHANGE_PRICE_PERCENT", "ADD_EXCHANGE_VOLUME",
   "ADD_EXCHANGE_DEPTH_PLUS", "ADD_EXCHANGE_DEPTH_MINUS", "ADD_EXCHANGE_VOLUME_PERCENTAGE",
   "ADD_EXCHANGE_ICON"}

InProgress == AddStates \cup {"UPDATE_EXCHANGE_VALUE"}

\* the step is the handling of a message /cancel
CancelStep ==
  /\ bot'.events = bot.events + 1 /\ bot'.event.kind = "message"
  /\ IsCommand(bot'.event.text, Txt_cancel)

\* C25: /cancel cancels the current operation from every conversation state:
\* sent while the add flow or the update flow is in progress (a state
\* ADD_EXCHANGE_* or UPDATE_EXCHANGE_VALUE), it clears the conversation state, is
\* not taken as the value of a field, and no POST or PATCH is sent.
C25_CancelAlwaysCancels ==
  [][ (CancelStep /\ bot.state[bot'.event.user] \in InProgress)
        => /\ bot'.state[bot'.event.user] = None
           /\ bot'.exchange_data = bot.exchange_data
           /\ bot'.sent.method \notin {"POST", "PATCH"} ]_vars

-----------------------------------------------------------------------------
(* The merged collection *)

\* the tickers quoted in USDT among those the provider returned to the last request
UsdtTickers == SelectSeq(last.tickersIn, LAMBDA tk : tk.target = "USDT")

\* C26: a fresh merged collection is one row per ticker quoted in USDT, in the
\* order of the tickers, followed by one row per stored listing; a stored listing
\* named like a provider exchange gives a second row, nothing is deduplicated. Its
\* length is the number of USDT tickers plus the size of the store, and its rows
\* carry the provisional ids 1..N. (While the last request is a listing the store
\* is as the merge saw it.)
C26_MergeIsSnapshotThenStore ==
  (Listed /\ last.source = "fetch")
    => /\ Len(last.presort) = Len(UsdtTickers) + Len(custom_exchanges)
       /\ \A i \in 1..Len(UsdtTickers) : last.presort[i].exchange = UsdtTickers[i].name
       /\ \A j \in 1..Len(custom_exchanges) :
            last.presort[Len(UsdtTickers) + j].exchange = custom_exchanges[j].value.exchange
       /\ \A i \in 1..Len(last.presort) : last.presort[i].id = i

\* a merge of three tickers quoted in USDT and of two stored listings, one of
\* them named like a provider row
C26_Witness ==
  /\ Listed /\ last.source = "fetch"
  /\ Len(custom_exchanges) = 2
  /\ \E i \in 1..Len(UsdtTickers), j \in 1..Len(custom_exchanges) :
       /\ last.presort[i].exchange = last.presort[Len(UsdtTickers) + j].exchange
       /\ Len(last.presort) = 5

-----------------------------------------------------------------------------
(* The exchange-metadata call *)

\* C27: any failure of the exchange-metadata call (an answer that is not 200, a
\* transport failure or a malformed body) is non-fatal: the fetch goes on to the
\* tickers with the static overrides alone and still returns the ticker listings,
\* the rows whose identifier is unknown having no icon and no URL.
C27_MetadataFailureIsNotFatal ==
  (/\ last.op = "listing" /\ last.metaIn \in {"non200", "raise"}
   /\ last.tickIn \notin {"non200", "raise"})
    => /\ last.status = "success" /\ "tickers" \in last.calls
       /\ Len(last.presort) = Len(UsdtTickers)
       /\ \A i \in 1..Len(UsdtTickers) :
            /\ last.presort[i].exchange = UsdtTickers[i].name
            /\ last.presort[i].icon = IconOf(UsdtTickers[i].identifier, "non200")
            /\ last.presort[i].url = None

-----------------------------------------------------------------------------
(* The depth estimates *)

\* the number a money field of a row shows
Dollars(s) == ParseFloat(Remove(Remove(s, "$"), ","), 0)

\* C28: for every retained ticker with converted USD volume v >= 0 the row's
\* depth +2% is floor(v * 6 / 100) and its depth -2% is floor(v * 5 / 100)
\* (v = 1000000 gives 60000 and 50000), hence depth -2% <= depth +2% <= volume24h
\* in every snapshot row.
C28_DepthsAreFloorsOfVolume ==
  /\ PlusDepth(1000000) = 60000 /\ MinusDepth(1000000) = 50000
  /\ (Listed /\ last.source = "fetch")
       => \A i \in 1..Len(UsdtTickers) :
            LET v == UsdtTickers[i].usd
                row == last.presort[i]
            IN /\ v >= 0
               /\ row.plusTwoPercentDepth = FormatMoney((v * 6) \div 100)
               /\ row.minusTwoPercentDepth = FormatMoney((v * 5) \div 100)
               /\ Dollars(row.minusTwoPercentDepth) <= Dollars(row.plusTwoPercentDepth)
               /\ Dollars(row.plusTwoPercentDepth) <= Dollars(row.volume24h)
               /\ Dollars(row.volume24h) = v

\* a fetched row whose volume is not a multiple of 100: its two estimates are
\* rounded down and differ
C28_Witness ==
  /\ Listed /\ last.source = "fetch"
  /\ \E i \in 1..Len(UsdtTickers) :
       /\ UsdtTickers[i].usd = 119
       /\ Dollars(last.presort[i].plusTwoPercentDepth) = 7
       /\ Dollars(last.presort[i].minusTwoPercentDepth) = 5

-----------------------------------------------------------------------------
(* The frame of the sort-and-rank step *)

\* a row without its id
Unranked(row) == [row EXCEPT !.id = 0]

\* how many rows of the collection are the given row, ids apart
Copies(rows, row) == Cardinality({i \in 1..Len(rows) : Unranked(rows[i]) = Unranked(row)})

\* C29: the sort-and-rank step returns a permutation of its input: the output
\* has as many rows, no row is lost or duplicated, and every field of every row
\* other than id is unchanged.
C29_SortAndRankPermutes ==
  SortedOnce
    => /\ Len(sorter.output) = Len(sorter.input)
       /\ \A i \in 1..Len(sorter.input) :
            Copies(sorter.output, sorter.input[i]) = Copies(sorter.input, sorter.input[i])

\* three rows, two of them equal in every field but the id, came out in
\* another order
C29_Witness ==
  /\ SortedOnce /\ Len(sorter.input) = 3
  /\ \E i \in 1..3 : Copies(sorter.input, sorter.input[i]) = 2
  /\ \E i \in 1..3 : Unranked(sorter.output[i]) # Unranked(sorter.input[i])

-----------------------------------------------------------------------------
(* The frame of a listing request *)

\* the step is a listing request, whatever its outcome
AnyListingStep == reqCount' = reqCount + 1 /\ last'.op = "listing"

\* C30: listing requests never modify the synthetic listing store: after a GET
\* /api/ltc-exchanges, served from a cache key or from a fetch, the reference
\* price available or not, the store has the same keys and every stored entry
\* has the fields it had, its id still 0 and its price not replaced by the price
\* computed for the merged row.
C30_ListingLeavesStore ==
  [][ AnyListingStep
        => /\ Keys(custom_exchanges') = Keys(custom_exchanges)
           /\ custom_exchanges' = custom_exchanges
           /\ \A i \in 1..Len(custom_exchanges') : custom_exchanges'[i].value.id = 0 ]_vars

\* after a fetch a stored listing shows in the merged collection with a price
\* computed during the merge, which is not the price the store holds
C30_Witness ==
  /\ Listed /\ last.source = "fetch" /\ custom_exchanges # <<>>
  /\ \E i \in 1..Len(custom_exchanges) :
       /\ custom_exchanges[i].value.price_percent.has /\ last.pricesIn[i] > 0
       /\ MergedCustomRows[i].price # custom_exchanges[i].value.price
       /\ MergedCustomRows[i].id > 0 /\ custom_exchanges[i].value.id = 0

-----------------------------------------------------------------------------
(* The two tiers of the cache *)

\* the rows of a payload, order and ids apart
RowSet(payload) == {Unranked(payload.data[i]) : i \in 1..Len(payload.data)}

\* the sorted keys that have not expired
LiveSortedKeys == {k \in RequestKeys : now < cache.sorted[k].expiresAt}

\* C31: the two cache tiers stay coherent: at every moment each live sorted
\* entry holds the same set of rows, order and ids apart, as the live base entry
\* whenever one is live.
C31_TiersAreCoherent ==
  BaseLive => \A k \in LiveSortedKeys : RowSet(cache.sorted[k].payload) = RowSet(cache.base.payload)

-----------------------------------------------------------------------------
(* The status of an upstream failure *)

\* C32: when the upstream ticker endpoint answers with a status s other than
\* 200, the error returned by GET /api/ltc-exchanges carries that same HTTP
\* status s.
C32_UpstreamStatusIsPassedOn ==
  (last.op = "listing" /\ last.tickIn = "non200")
     => last.status = "error" /\ last.code = last.tickStatus

-----------------------------------------------------------------------------
(* The time to live of the price history *)

\* for each value of days, the value of 1..90 nearest to it
Clamped == [d \in HistoryDays |-> CHOOSE c \in 1..90 : \A e \in 1..90 : Abs(c - d) <= Abs(e - d)]

\* the requests served that called SETEX
HistoryWrites == {i \in 1..Len(history.served) : history.served[i].ttl > 0}

\* C33: the price-history TTL is monotone in the requested window: days being
\* clamped to 1..90, for d1 <= d2 the TTL used for d1 is not greater than the TTL
\* used for d2; the TTL is one of 3600, 21600, 43200 seconds and never exceeds 12
\* hours; two requests whose clamped days and daily_close are equal use the same
\* cache key.
C33_HistoryTtlIsMonotone ==
  /\ \A i \in HistoryWrites :
       /\ history.served[i].ttl \in {3600, 21600, 43200}
       /\ history.served[i].ttl <= 12 * 60 * 60
       /\ \A j \in HistoryWrites :
            Clamped[history.served[i].days_in] <= Clamped[history.served[j].days_in]
              => history.served[i].ttl <= history.served[j].ttl
  /\ \A i, j \in 1..Len(history.served) :
       (/\ Clamped[history.served[i].days_in] = Clamped[history.served[j].days_in]
        /\ history.served[i].daily_close = history.served[j].daily_close)
         => history.served[i].cache_key = history.served[j].cache_key

\* a request for 0 days, served as one day and cached for an hour, then a request
\* for 30 days cached for twelve hours
C33_Witness ==
  /\ Len(history.served) = 2 /\ HistoryWrites = {1, 2}
  /\ history.served[1].days_in = 0 /\ history.served[1].days = 1
  /\ history.served[1].ttl = 3600
  /\ history.served[2].days_in = 30 /\ history.served[2].ttl = 43200
  /\ history.served[2].status = "success"

-----------------------------------------------------------------------------
(* The bot and the reference price *)

\* the step is the handling of a message
MessageStep == bot'.events = bot.events + 1 /\ bot'.event.kind = "message"

\* the step handles a percent adjustment: the percent step of the add flow, or
\* the value of the update flow when the field chosen is price_percent
PercentStep ==
  /\ MessageStep
  /\ \/ bot'.handler = "add_exchange_price_percent"
     \/ /\ bot'.handler = "update_exchange_value"
        /\ bot.data[bot'.event.user].update_field = "price_percent"
        /\ bot.data[bot'.event.user].current_exchange # None

\* C34: when the reference price is the sentinel 0 at the moment the operator
\* submits a percent adjustment (percent step of the add flow, or update of
\* price_percent), the bot replies that the price is unavailable, sends no
\* request to the API, records no percent value and stays in the same
\* conversation state.
C34_NoPercentWithoutPrice ==
  [][ (PercentStep /\ bot'.gateway \in Unavailable)
        => /\ bot'.reply = "price_unavailable"
           /\ bot'.sent = NoApiCall
           /\ bot'.exchange_data = bot.exchange_data
           /\ bot'.state = bot.state /\ bot'.data = bot.data ]_vars

\* the operator sent +5 at the percent step of the add flow while the quote
\* provider answered with a status other than 200
C34_Witness ==
  /\ bot.handler = "add_exchange_price_percent" /\ bot.event.text = <<"+", "5">>
  /\ bot.gateway = "non200" /\ bot.reply = "price_unavailable"
  /\ bot.state[1] = "ADD_EXCHANGE_PRICE_PERCENT"
  /\ "exchange" \in DOMAIN bot.exchange_data /\ "price_percent" \notin DOMAIN bot.exchange_data

-----------------------------------------------------------------------------
(* The bot and the texts that are not numbers *)

\* the states of the add flow that wait for a number
NumericStates ==
  {"ADD_EXCHANGE_PRICE_PERCENT", "ADD_EXCHANGE_VOLUME", "ADD_EXCHANGE_DEPTH_PLUS",
   "ADD_EXCHANGE_DEPTH_MINUS", "ADD_EXCHANGE_VOLUME_PERCENTAGE"}

\* the fields of an update whose value is a number
NumericFields ==
  {"price_percent", "volume24h", "plusTwoPercentDepth", "minusTwoPercentDepth",
   "volumePercentage"}

\* the user whose message the step handles, and the state it finds
Sender == bot'.event.user

StateFound == bot.state[Sender]

\* the text of the message is not a number
NotANumber == ~PercentText(bot'.event.text).ok /\ ~IsFloatText(bot'.event.text)

\* nothing is recorded, nothing is sent, the conversation is where it was
NothingDone ==
  /\ bot'.state = bot.state /\ bot'.data = bot.data
  /\ bot'.exchange_data = bot.exchange_data
  /\ bot'.sent = NoApiCall

-----------------------------------------------------------------------------
(* The add flow of one operator *)

\* the fields the add flow collects before the icon
CollectedFields ==
  {"exchange", "price_percent", "volume24h", "plusTwoPercentDepth", "minusTwoPercentDepth",
   "volumePercentage"}

\* the state of the add flow that comes before each of the others
StateBefore ==
  [s \in AddStates \ {"ADD_EXCHANGE_NAME"} |->
     CASE s = "ADD_EXCHANGE_PRICE_PERCENT" -> "ADD_EXCHANGE_NAME"
       [] s = "ADD_EXCHANGE_VOLUME" -> "ADD_EXCHANGE_PRICE_PERCENT"
       [] s = "ADD_EXCHANGE_DEPTH_PLUS" -> "ADD_EXCHANGE_VOLUME"
       [] s = "ADD_EXCHANGE_DEPTH_MINUS" -> "ADD_EXCHANGE_DEPTH_PLUS"
       [] s = "ADD_EXCHANGE_VOLUME_PERCENTAGE" -> "ADD_EXCHANGE_DEPTH_MINUS"
       [] s = "ADD_EXCHANGE_ICON" -> "ADD_EXCHANGE_VOLUME_PERCENTAGE"]

\* the step brings the operator's conversation into state s
Enters(s) == bot'.state[Sender] = s /\ bot.state[Sender] # s

\* C36: for a single operator, the create POST is sent only from the state
\* ADD_EXCHANGE_ICON; that state is entered only from VOLUME_PERCENTAGE, which
\* is entered only from DEPTH_MINUS, and so on back to NAME, which is entered
\* only by pressing 'add', which empties the collected data; so the payload
\* carries the six collected fields; after the POST the conversation state is
\* cleared whether the API call succeeded or failed.
C36_PostOnlyAfterSixSteps ==
  [][ bot'.events = bot.events + 1
        => /\ bot'.sent.method = "POST"
                => /\ bot'.event.kind = "message" /\ StateFound = "ADD_EXCHANGE_ICON"
                   /\ CollectedFields \subseteq DOMAIN bot'.sent.json
                   /\ bot'.state[Sender] = None
           /\ Enters("ADD_EXCHANGE_NAME")
                => /\ bot'.event.kind = "callback" /\ bot'.event.data.prefix = "add"
                   /\ bot'.exchange_data = <<>>
           /\ \A s \in DOMAIN StateBefore :
                Enters(s) => /\ bot'.event.kind = "message" /\ StateFound = StateBefore[s]
                             /\ DOMAIN bot'.exchange_data \ DOMAIN bot.exchange_data # {} ]_vars

\* the six steps were passed, the icon was skipped, the API refused the POST:
\* the conversation is over
C36_Witness ==
  /\ bot.sent.method = "POST" /\ bot.reply = "failed" /\ bot.state[1] = None
  /\ DOMAIN bot.sent.json = CollectedFields
  /\ bot.event.text = <<"-">>

-----------------------------------------------------------------------------
(* The add flows of two operators *)

\* C37: add flows of different operators are isolated: when two admins run the
\* add flow with their steps interleaved in any order, the payload each POST
\* sends contains only the values entered by the operator who completed that
\* flow, all required fields included.
C37_AddFlowsAreIsolated ==
  bot.sent.method = "POST"
    => /\ bot.sent.json = bot.entered[bot.event.user]
       /\ CollectedFields \subseteq DOMAIN bot.sent.json

====
